---------------------------- MODULE Spec2Model ----------------------------
(***************************************************************************)
(* Verification model of dbus-pure: the D-Bus wire codec (dbus-pure-proto) *)
(* and the Connection / Client state machine layered on it.                *)
(*                                                                         *)
(* Representation.  A byte is a number in 0..255 and a buffer is a         *)
(* sequence of bytes.  A fixed-width integer (u16, u32, u64, i16, i32,     *)
(* i64, f64) is held as the tuple of its bytes, least significant first,   *)
(* so that every 32- and 64-bit value, 2^32 - 1 included, is a value of    *)
(* the model.  Strings are sequences of byte codes.                        *)
(***************************************************************************)
EXTENDS Integers, Sequences, FiniteSets, TLC

VARIABLES
    sock_in,      \* bytes the peer has written and the program has not read yet
    sock,         \* "open" | "closed" (peer shut down) | "broken" (read/write fail)
    wire_out,     \* every byte the program has written to the socket, in order
    read_buf,     \* Connection.read_buf
    read_end,     \* Connection.read_end
    write_buf,    \* Connection.write_buf
    write_endianness, \* Connection.write_endianness
    connection,   \* Client.connection: "some" | "none" (taken: the client is poisoned)
    last_serial,  \* Client.last_serial
    name,         \* Client.name: <<>> (None) or <<string>>
    received_messages, \* Client.received_messages: the held queue
    call,         \* the operation in progress and its position
    hist,         \* history: what was parsed, delivered, issued and returned
    codec         \* the codec under test: its inputs and outputs

vars == <<sock_in, sock, wire_out, read_buf, read_end, write_buf, write_endianness,
          connection, last_serial, name, received_messages, call, hist, codec>>

(***************************************************************************)
(* Bytes and fixed-width integers                                          *)
(***************************************************************************)
Byte == 0..255

Min(a, b) == IF a < b THEN a ELSE b

Rev(s) == [i \in 1..Len(s) |-> s[Len(s) + 1 - i]]

Zeros(n) == [i \in 1..n |-> 0]

\* u32::to_le_bytes of a small natural (a length or a literal of the model)
U32(n) == <<n % 256, (n \div 256) % 256, (n \div 65536) % 256, (n \div 16777216) % 256>>

U16(n) == <<n % 256, (n \div 256) % 256>>

U64(n) == U32(n) \o <<0, 0, 0, 0>>

\* u32::max_value()
U32Max == <<255, 255, 255, 255>>

\* A length no buffer of the model reaches: stands for every u32 >= 2^24 read
\* from the wire where only its comparison with a buffer length matters.
Huge == 16777216

\* u32 -> usize (try_into on a 64-bit target never fails)
ToLen(w) == IF w[4] > 0 THEN Huge ELSE w[1] + 256 * w[2] + 65536 * w[3]

\* x < y on u32 values
U32Less(x, y) ==
    \E i \in 1..4 : x[i] < y[i] /\ \A j \in (i + 1)..4 : x[j] = y[j]

\* x + 1 on u32 values, wrapping (the callers never wrap)
U32Succ(x) ==
    IF x[1] < 255 THEN <<x[1] + 1, x[2], x[3], x[4]>>
    ELSE IF x[2] < 255 THEN <<0, x[2] + 1, x[3], x[4]>>
    ELSE IF x[3] < 255 THEN <<0, 0, x[3] + 1, x[4]>>
    ELSE <<0, 0, 0, (x[4] + 1) % 256>>

\* x % m on u32 values with m >= 2^31, so that x < 2 * m: one subtraction at most
U32RemMax(x) == IF U32Less(x, U32Max) THEN x ELSE <<0, 0, 0, 0>>

\* Endianness::{u16,u32,u64,...}_to_bytes
ToBytes(e, w) == IF e = "Little" THEN w ELSE Rev(w)

\* the bytes taken as they are, whatever the endianness
FromBytesNative(e, bytes) == bytes

\* Endianness::{u16,u32,u64,...}_from_bytes
FromBytes(e, bytes) == IF e = "Little" THEN bytes ELSE Rev(bytes)

Endiannesses == {"Little", "Big"}

(***************************************************************************)
(* Signature                                                               *)
(***************************************************************************)
SigBool == [t |-> "Bool"]
SigF64 == [t |-> "F64"]
SigI16 == [t |-> "I16"]
SigI32 == [t |-> "I32"]
SigI64 == [t |-> "I64"]
SigObjectPath == [t |-> "ObjectPath"]
SigSignature == [t |-> "Signature"]
SigString == [t |-> "String"]
SigU8 == [t |-> "U8"]
SigU16 == [t |-> "U16"]
SigU32 == [t |-> "U32"]
SigU64 == [t |-> "U64"]
SigUnixFd == [t |-> "UnixFd"]
SigVariant == [t |-> "Variant"]
SigArray(element) == [t |-> "Array", element |-> element]
SigDictEntry(key, value) == [t |-> "DictEntry", key |-> key, value |-> value]
SigStruct(fields) == [t |-> "Struct", fields |-> fields]
SigTuple(elements) == [t |-> "Tuple", elements |-> elements]

\* Signature::alignment
Alignment(sig) ==
    CASE sig.t = "Array" -> 4
      [] sig.t = "Bool" -> 4
      [] sig.t = "DictEntry" -> 8
      [] sig.t = "F64" -> 8
      [] sig.t = "I16" -> 2
      [] sig.t = "I32" -> 4
      [] sig.t = "I64" -> 8
      [] sig.t = "ObjectPath" -> 4
      [] sig.t = "Signature" -> 1
      [] sig.t = "String" -> 4
      [] sig.t = "Struct" -> 8
      [] sig.t = "Tuple" -> 1
      [] sig.t = "U8" -> 1
      [] sig.t = "U16" -> 2
      [] sig.t = "U32" -> 4
      [] sig.t = "U64" -> 8
      [] sig.t = "UnixFd" -> 4
      [] sig.t = "Variant" -> 1

\* The signature alphabet (ASCII codes)
ChA == 97
ChB == 98
ChD == 100
ChG == 103
ChH == 104
ChI == 105
ChN == 110
ChO == 111
ChQ == 113
ChS == 115
ChT == 116
ChU == 117
ChV == 118
ChX == 120
ChY == 121
ChLParen == 40
ChRParen == 41
ChLBrace == 123
ChRBrace == 125

RECURSIVE SigToString(_)
RECURSIVE SigsToString(_)

\* impl Display for Signature
SigToString(sig) ==
    CASE sig.t = "Array" -> <<ChA>> \o SigToString(sig.element)
      [] sig.t = "Bool" -> <<ChB>>
      [] sig.t = "DictEntry" ->
            <<ChLBrace>> \o SigToString(sig.key) \o SigToString(sig.value) \o <<ChRBrace>>
      [] sig.t = "F64" -> <<ChD>>
      [] sig.t = "I16" -> <<ChN>>
      [] sig.t = "I32" -> <<ChI>>
      [] sig.t = "I64" -> <<ChX>>
      [] sig.t = "ObjectPath" -> <<ChO>>
      [] sig.t = "Signature" -> <<ChG>>
      [] sig.t = "String" -> <<ChS>>
      [] sig.t = "Struct" -> <<ChLParen>> \o SigsToString(sig.fields) \o <<ChRParen>>
      [] sig.t = "Tuple" -> SigsToString(sig.elements)
      [] sig.t = "U8" -> <<ChY>>
      [] sig.t = "U16" -> <<ChQ>>
      [] sig.t = "U32" -> <<ChU>>
      [] sig.t = "U64" -> <<ChT>>
      [] sig.t = "UnixFd" -> <<ChH>>
      [] sig.t = "Variant" -> <<ChV>>

\* the texts of the signatures one after the other (the list is halved, so
\* that a long list is no deep recursion)
SigsToString(sigs) ==
    IF sigs = <<>> THEN <<>>
    ELSE IF Len(sigs) = 1 THEN SigToString(sigs[1])
    ELSE LET half == Len(sigs) \div 2 IN
         SigsToString(SubSeq(sigs, 1, half)) \o SigsToString(SubSeq(sigs, half + 1, Len(sigs)))

RECURSIVE from_inner(_, _)
RECURSIVE StructFields(_, _, _)

\* from_inner of impl FromStr for Signature: one type from s at index i.
\* [ok, sig, i]: i is the index after the type.
from_inner(s, i) ==
    IF i > Len(s) THEN [ok |-> FALSE]
    ELSE LET c == s[i] IN
    CASE c = ChA ->
            LET r == from_inner(s, i + 1) IN
            IF r.ok THEN [ok |-> TRUE, sig |-> SigArray(r.sig), i |-> r.i] ELSE r
      [] c = ChB -> [ok |-> TRUE, sig |-> SigBool, i |-> i + 1]
      [] c = ChD -> [ok |-> TRUE, sig |-> SigF64, i |-> i + 1]
      [] c = ChG -> [ok |-> TRUE, sig |-> SigSignature, i |-> i + 1]
      [] c = ChH -> [ok |-> TRUE, sig |-> SigUnixFd, i |-> i + 1]
      [] c = ChI -> [ok |-> TRUE, sig |-> SigI32, i |-> i + 1]
      [] c = ChN -> [ok |-> TRUE, sig |-> SigI16, i |-> i + 1]
      [] c = ChO -> [ok |-> TRUE, sig |-> SigObjectPath, i |-> i + 1]
      [] c = ChQ -> [ok |-> TRUE, sig |-> SigU16, i |-> i + 1]
      [] c = ChS -> [ok |-> TRUE, sig |-> SigString, i |-> i + 1]
      [] c = ChT -> [ok |-> TRUE, sig |-> SigU64, i |-> i + 1]
      [] c = ChU -> [ok |-> TRUE, sig |-> SigU32, i |-> i + 1]
      [] c = ChV -> [ok |-> TRUE, sig |-> SigVariant, i |-> i + 1]
      [] c = ChX -> [ok |-> TRUE, sig |-> SigI64, i |-> i + 1]
      [] c = ChY -> [ok |-> TRUE, sig |-> SigU8, i |-> i + 1]
      [] c = ChLParen -> StructFields(s, i + 1, <<>>)
      [] c = ChLBrace ->
            LET k == from_inner(s, i + 1) IN
            IF ~k.ok THEN k
            ELSE LET v == from_inner(s, k.i) IN
                 IF ~v.ok THEN v
                 ELSE IF v.i > Len(s) \/ s[v.i] # ChRBrace THEN [ok |-> FALSE]
                 ELSE [ok |-> TRUE, sig |-> SigDictEntry(k.sig, v.sig), i |-> v.i + 1]
      [] OTHER -> [ok |-> FALSE]

\* the '(' loop of from_inner: fields until the matching ')'
StructFields(s, i, fields) ==
    IF i <= Len(s) /\ s[i] = ChRParen
    THEN [ok |-> TRUE, sig |-> SigStruct(fields), i |-> i + 1]
    ELSE LET r == from_inner(s, i) IN
         IF r.ok THEN StructFields(s, r.i, Append(fields, r.sig)) ELSE r

RECURSIVE TupleRest(_, _, _)

\* the while loop of from_str: the remaining top-level types
TupleRest(s, i, elements) ==
    IF i > Len(s) THEN [ok |-> TRUE, sig |-> SigTuple(elements)]
    ELSE LET r == from_inner(s, i) IN
         IF r.ok THEN TupleRest(s, r.i, Append(elements, r.sig)) ELSE [ok |-> FALSE]

\* a from_str that stops after the first type of the text
from_str_first(s) ==
    IF s = <<>> THEN [ok |-> TRUE, sig |-> SigTuple(<<>>)]
    ELSE LET first == from_inner(s, 1) IN
         IF ~first.ok THEN [ok |-> FALSE]
         ELSE [ok |-> TRUE, sig |-> first.sig]

\* impl FromStr for Signature: [ok, sig]
from_str(s) ==
    IF s = <<>> THEN [ok |-> TRUE, sig |-> SigTuple(<<>>)]
    ELSE LET first == from_inner(s, 1) IN
         IF ~first.ok THEN [ok |-> FALSE]
         ELSE IF first.i <= Len(s) THEN TupleRest(s, first.i, <<first.sig>>)
         ELSE [ok |-> TRUE, sig |-> first.sig]


(***************************************************************************)
(* Variant                                                                 *)
(***************************************************************************)
VArray(element_signature, elements) ==
    [t |-> "Array", v |-> [element_signature |-> element_signature, elements |-> elements]]
VArrayBool(elements) == [t |-> "ArrayBool", v |-> elements]
VArrayF64(elements) == [t |-> "ArrayF64", v |-> elements]
VArrayI16(elements) == [t |-> "ArrayI16", v |-> elements]
VArrayI32(elements) == [t |-> "ArrayI32", v |-> elements]
VArrayI64(elements) == [t |-> "ArrayI64", v |-> elements]
VArrayString(elements) == [t |-> "ArrayString", v |-> elements]
VArrayU8(elements) == [t |-> "ArrayU8", v |-> elements]
VArrayU16(elements) == [t |-> "ArrayU16", v |-> elements]
VArrayU32(elements) == [t |-> "ArrayU32", v |-> elements]
VArrayU64(elements) == [t |-> "ArrayU64", v |-> elements]
VArrayUnixFd(elements) == [t |-> "ArrayUnixFd", v |-> elements]
VBool(b) == [t |-> "Bool", v |-> b]
VDictEntry(key, value) == [t |-> "DictEntry", v |-> [key |-> key, value |-> value]]
VF64(w) == [t |-> "F64", v |-> w]
VI16(w) == [t |-> "I16", v |-> w]
VI32(w) == [t |-> "I32", v |-> w]
VI64(w) == [t |-> "I64", v |-> w]
VObjectPath(s) == [t |-> "ObjectPath", v |-> s]
VSignature(sig) == [t |-> "Signature", v |-> sig]
VString(s) == [t |-> "String", v |-> s]
VStruct(fields) == [t |-> "Struct", v |-> fields]
VTuple(elements) == [t |-> "Tuple", v |-> elements]
VU8(b) == [t |-> "U8", v |-> b]
VU16(w) == [t |-> "U16", v |-> w]
VU32(w) == [t |-> "U32", v |-> w]
VU64(w) == [t |-> "U64", v |-> w]
VUnixFd(w) == [t |-> "UnixFd", v |-> w]
VVariant(inner) == [t |-> "Variant", v |-> inner]

\* an inner_signature whose arms for ArrayI64 and ArrayU64 are exchanged
ArrayElementSigSwapped(tag) ==
    CASE tag = "ArrayBool" -> SigBool
      [] tag = "ArrayF64" -> SigF64
      [] tag = "ArrayI16" -> SigI16
      [] tag = "ArrayI32" -> SigI32
      [] tag = "ArrayI64" -> SigU64
      [] tag = "ArrayString" -> SigString
      [] tag = "ArrayU8" -> SigU8
      [] tag = "ArrayU16" -> SigU16
      [] tag = "ArrayU32" -> SigU32
      [] tag = "ArrayU64" -> SigI64
      [] tag = "ArrayUnixFd" -> SigUnixFd

\* The element signature of each specialised array constructor
ArrayElementSig(tag) ==
    CASE tag = "ArrayBool" -> SigBool
      [] tag = "ArrayF64" -> SigF64
      [] tag = "ArrayI16" -> SigI16
      [] tag = "ArrayI32" -> SigI32
      [] tag = "ArrayI64" -> SigI64
      [] tag = "ArrayString" -> SigString
      [] tag = "ArrayU8" -> SigU8
      [] tag = "ArrayU16" -> SigU16
      [] tag = "ArrayU32" -> SigU32
      [] tag = "ArrayU64" -> SigU64
      [] tag = "ArrayUnixFd" -> SigUnixFd

SpecialArrayTags ==
    {"ArrayBool", "ArrayF64", "ArrayI16", "ArrayI32", "ArrayI64", "ArrayString",
     "ArrayU8", "ArrayU16", "ArrayU32", "ArrayU64", "ArrayUnixFd"}

RECURSIVE inner_signature(_)
RECURSIVE inner_signatures(_)

\* Variant::inner_signature
inner_signature(v) ==
    CASE v.t = "Array" -> SigArray(v.v.element_signature)
      [] v.t \in SpecialArrayTags -> SigArray(ArrayElementSig(v.t))
      [] v.t = "DictEntry" ->
            SigDictEntry(inner_signature(v.v.key), inner_signature(v.v.value))
      [] v.t = "Struct" -> SigStruct(inner_signatures(v.v))
      [] v.t = "Tuple" -> SigTuple(inner_signatures(v.v))
      [] OTHER -> [t |-> v.t]

inner_signatures(vs) ==
    IF vs = <<>> THEN <<>>
    ELSE <<inner_signature(Head(vs))>> \o inner_signatures(Tail(vs))

(***************************************************************************)
(* Serializer: every operation takes the buffer, the start offset of the   *)
(* message in it and the endianness, and gives [ok, buf]; on an error buf  *)
(* is the buffer as the failed call left it.                               *)
(***************************************************************************)
\* a serializer that writes no padding
SerNoPad(buf, start, alignment) == buf

\* a pad_to that measures the position from the start of the buffer
SerPadToBuffer(buf, start, alignment) ==
    LET pos == Len(buf)
        new_pos == ((pos + alignment - 1) \div alignment) * alignment
    IN  buf \o Zeros(new_pos - pos)

\* Serializer::pad_to
SerPadTo(buf, start, alignment) ==
    LET pos == Len(buf) - start
        new_pos == ((pos + alignment - 1) \div alignment) * alignment
    IN  buf \o Zeros(new_pos - pos)

\* Serializer::serialize_u8
SerU8(buf, b) == Append(buf, b)

\* Serializer::serialize_{u16,u32,u64,i16,i32,i64,f64}: pad to the width, then the bytes
SerFixed(buf, start, e, w) == SerPadTo(buf, start, Len(w)) \o ToBytes(e, w)

\* u8::try_from(usize)
U8Limit == 255

\* Signature::serialize: u8 length, the text, a NUL
SerSignature(buf, sig) ==
    LET text == SigToString(sig) IN
    IF Len(text) > U8Limit THEN [ok |-> FALSE, buf |-> buf]
    ELSE [ok |-> TRUE, buf |-> (Append(buf, Len(text)) \o text) \o <<0>>]

\* Serializer::serialize_array_u8
SerArrayU8(buf, start, e, bytes) ==
    [ok |-> TRUE, buf |-> SerFixed(buf, start, e, U32(Len(bytes))) \o bytes]

\* the back-patch of Serializer::serialize_array
PatchLen(buf, data_len_pos, e, data_len) ==
    [i \in 1..Len(buf) |->
        IF i > data_len_pos /\ i <= data_len_pos + 4
        THEN ToBytes(e, U32(data_len))[i - data_len_pos]
        ELSE buf[i]]

RECURSIVE SerVariant(_, _, _, _)
RECURSIVE SerEach(_, _, _, _)
RECURSIVE SerRest(_, _, _, _)

\* the element loop of serialize_array, serialize_struct and Tuple
SerEach(vs, buf, start, e) ==
    IF vs = <<>> THEN [ok |-> TRUE, buf |-> buf]
    ELSE SerRest(SerVariant(Head(vs), buf, start, e), Tail(vs), start, e)

\* the ? of the element loop: the first error ends it
SerRest(r, vs, start, e) == IF r.ok THEN SerEach(vs, r.buf, start, e) ELSE r

\* the end of Serializer::serialize_array: the length of the element region
\* is written over the placeholder, unless an element failed
SerArrayEnd(r, data_len_pos, data_start_pos, e) ==
    IF ~r.ok THEN r
    ELSE [ok |-> TRUE, buf |-> PatchLen(r.buf, data_len_pos, e, Len(r.buf) - data_start_pos)]

\* a serialize_array that takes the start of the data before the padding
SerArrayDataCounted(element_alignment, vs, b1, start, e) ==
    SerArrayEnd(SerEach(vs, SerPadTo(b1, start, element_alignment), start, e),
                Len(b1) - 4, Len(b1), e)

\* the middle of Serializer::serialize_array: b1 is the buffer after the
\* placeholder; the padding to the element alignment, then the elements
SerArrayData(element_alignment, vs, b1, start, e) ==
    SerArrayEnd(SerEach(vs, SerPadTo(b1, start, element_alignment), start, e),
                Len(b1) - 4, Len(SerPadTo(b1, start, element_alignment)), e)

\* Serializer::serialize_array with the elements given as Variants
SerArray(element_alignment, vs, buf, start, e) ==
    SerArrayData(element_alignment, vs, SerFixed(buf, start, e, U32(0)), start, e)

\* the NUL that ends a string
SerNul(r) == IF r.ok THEN [ok |-> TRUE, buf |-> SerU8(r.buf, 0)] ELSE r

\* Serializer::serialize_string
SerString(buf, start, e, s) ==
    SerNul(SerArray(1, [i \in 1..Len(s) |-> VU8(s[i])], buf, start, e))

\* Serializer::serialize_struct
SerStruct(vs, buf, start, e) == SerEach(vs, SerPadTo(buf, start, 8), start, e)

\* The elements of a specialised array as Variants of the element type
SpecialElements(v) ==
    LET tag == ArrayElementSig(v.t).t IN [i \in 1..Len(v.v) |-> [t |-> tag, v |-> v.v[i]]]

\* Variant::serialize
SerVariant(v, buf, start, e) ==
    CASE v.t = "Array" ->
            SerArray(Alignment(v.v.element_signature), v.v.elements, buf, start, e)
      [] v.t = "ArrayU8" -> SerArrayU8(buf, start, e, v.v)
      [] v.t \in SpecialArrayTags \ {"ArrayU8"} ->
            SerArray(Alignment(ArrayElementSig(v.t)), SpecialElements(v), buf, start, e)
      [] v.t = "Bool" ->
            [ok |-> TRUE, buf |-> SerFixed(buf, start, e, U32(IF v.v THEN 1 ELSE 0))]
      [] v.t = "DictEntry" -> SerStruct(<<v.v.key, v.v.value>>, buf, start, e)
      [] v.t \in {"F64", "I16", "I32", "I64", "U16", "U32", "U64", "UnixFd"} ->
            [ok |-> TRUE, buf |-> SerFixed(buf, start, e, v.v)]
      [] v.t \in {"ObjectPath", "String"} -> SerString(buf, start, e, v.v)
      [] v.t = "Signature" -> SerSignature(buf, v.v)
      [] v.t = "Struct" -> SerStruct(v.v, buf, start, e)
      [] v.t = "Tuple" -> SerEach(v.v, buf, start, e)
      [] v.t = "U8" -> [ok |-> TRUE, buf |-> SerU8(buf, v.v)]
      [] v.t = "Variant" ->
            SerRest(SerSignature(buf, inner_signature(v.v)), <<v.v>>, start, e)

\* Serializer::new on an empty buffer, then Variant::serialize
Serialize(v, e) == SerVariant(v, <<>>, 0, e)

(***************************************************************************)
(* Deserializer: every operation takes the buffer, its limit (the length   *)
(* of the slice the Deserializer wraps), the position and the endianness,  *)
(* and gives [ok |-> TRUE, v, pos] or [ok |-> FALSE, err].  Positions are  *)
(* the source's: the byte at position p is buf[p + 1].                     *)
(***************************************************************************)
Fail(err) == [ok |-> FALSE, err |-> err]

Done(v, pos) == [ok |-> TRUE, v |-> v, pos |-> pos]

\* the ? operator: the first error ends the function, a result goes on to rest
Then(r, rest(_)) == IF r.ok THEN rest(r) ELSE r

\* Ok(constructor(value)) of a result
Tagged(tag, r) == IF r.ok THEN Done([t |-> tag, v |-> r.v], r.pos) ELSE r

\* a pad_to that skips the bytes without looking at them
DePadToLax(buf, lim, pos, alignment) ==
    LET new_pos == ((pos + alignment - 1) \div alignment) * alignment IN
    IF lim < new_pos THEN Fail("EndOfInput")
    ELSE Done(<<>>, new_pos)

\* Deserializer::pad_to
DePadTo(buf, lim, pos, alignment) ==
    LET new_pos == ((pos + alignment - 1) \div alignment) * alignment IN
    IF lim < new_pos THEN Fail("EndOfInput")
    ELSE IF \E i \in (pos + 1)..new_pos : buf[i] # 0 THEN Fail("NonZeroPadding")
    ELSE Done(<<>>, new_pos)

\* Deserializer::deserialize_u8
DeU8(buf, lim, pos) ==
    IF lim < pos + 1 THEN Fail("EndOfInput") ELSE Done(buf[pos + 1], pos + 1)

\* Deserializer::deserialize_{u16,u32,u64,i16,i32,i64,f64}
DeFixed(buf, lim, pos, e, width) ==
    Then(DePadTo(buf, lim, pos, width), LAMBDA p :
        IF lim < p.pos + width THEN Fail("EndOfInput")
        ELSE Done(FromBytes(e, SubSeq(buf, p.pos + 1, p.pos + width)), p.pos + width))

\* Deserializer::deserialize_bool
DeBool(buf, lim, pos, e) ==
    Then(DeFixed(buf, lim, pos, e, 4), LAMBDA r :
        IF r.v = U32(0) THEN Done(FALSE, r.pos)
        ELSE IF r.v = U32(1) THEN Done(TRUE, r.pos)
        ELSE Fail("InvalidValue"))

RECURSIVE IsUtf8(_, _)

\* std::str::from_utf8 from index i on: the lead byte classes and their
\* continuation bytes (the second-byte ranges of E0, ED, F0, F4 are not narrowed)
IsUtf8(s, i) ==
    LET Cont(j) == j <= Len(s) /\ s[j] >= 128 /\ s[j] <= 191 IN
    IF i > Len(s) THEN TRUE
    ELSE IF s[i] < 128 THEN IsUtf8(s, i + 1)
    ELSE IF s[i] >= 194 /\ s[i] <= 223 THEN Cont(i + 1) /\ IsUtf8(s, i + 2)
    ELSE IF s[i] >= 224 /\ s[i] <= 239 THEN Cont(i + 1) /\ Cont(i + 2) /\ IsUtf8(s, i + 3)
    ELSE IF s[i] >= 240 /\ s[i] <= 244
         THEN Cont(i + 1) /\ Cont(i + 2) /\ Cont(i + 3) /\ IsUtf8(s, i + 4)
    ELSE FALSE

\* the bytes of a string of len bytes at pos, with its NUL
DeStringData(buf, lim, pos, len) ==
    IF lim < pos + len + 1 THEN Fail("EndOfInput")
    ELSE IF buf[pos + len + 1] # 0 THEN Fail("StringMissingNulTerminator")
    ELSE IF IsUtf8(SubSeq(buf, pos + 1, pos + len), 1)
    THEN Done(SubSeq(buf, pos + 1, pos + len), pos + len + 1)
    ELSE Fail("InvalidUtf8")

\* Deserializer::deserialize_string
DeString(buf, lim, pos, e) ==
    Then(DeFixed(buf, lim, pos, e, 4), LAMBDA l : DeStringData(buf, lim, l.pos, ToLen(l.v)))

\* Deserializer::deserialize_array_u8: a u32 length, then that many raw bytes
DeArrayU8(buf, lim, pos, e) ==
    Then(DeFixed(buf, lim, pos, e, 4), LAMBDA l :
        IF lim < l.pos + ToLen(l.v) THEN Fail("EndOfInput")
        ELSE Done(SubSeq(buf, l.pos + 1, l.pos + ToLen(l.v)), l.pos + ToLen(l.v)))

\* the text of a signature parsed
DeSignatureText(parsed, pos) ==
    IF parsed.ok THEN Done(parsed.sig, pos) ELSE Fail("InvalidValue")

\* Signature::deserialize: a u8 length, the text, a NUL; then the text is parsed
DeSignature(buf, lim, pos) ==
    Then(DeU8(buf, lim, pos), LAMBDA l :
        IF lim < l.pos + l.v + 1 THEN Fail("EndOfInput")
        ELSE IF buf[l.pos + l.v + 1] # 0 THEN Fail("InvalidValue")
        ELSE DeSignatureText(from_str(SubSeq(buf, l.pos + 1, l.pos + l.v)), l.pos + l.v + 1))

\* The element signatures Variant::deserialize gives a specialised constructor
SpecialArrayTag(element) ==
    CASE element.t = "Bool" -> "ArrayBool"
      [] element.t = "F64" -> "ArrayF64"
      [] element.t = "I16" -> "ArrayI16"
      [] element.t = "I32" -> "ArrayI32"
      [] element.t = "I64" -> "ArrayI64"
      [] element.t = "String" -> "ArrayString"
      [] element.t = "U8" -> "ArrayU8"
      [] element.t = "U16" -> "ArrayU16"
      [] element.t = "U32" -> "ArrayU32"
      [] element.t = "U64" -> "ArrayU64"
      [] element.t = "UnixFd" -> "ArrayUnixFd"
      [] OTHER -> "Array"

RECURSIVE DeVariant(_, _, _, _, _)
RECURSIVE DeEach(_, _, _, _, _, _)
RECURSIVE DeElements(_, _, _, _, _, _)

\* the field loop of Struct, DictEntry and Tuple: one value per signature
DeEach(sigs, buf, lim, pos, e, acc) ==
    IF sigs = <<>> THEN Done(acc, pos)
    ELSE Then(DeVariant(Head(sigs), buf, lim, pos, e), LAMBDA r :
            DeEach(Tail(sigs), buf, lim, r.pos, e, Append(acc, r.v)))

\* SeqDeserializer::next_element_seed, called until it gives None: elements
\* until the position is the end of the array's slice.  An element that is
\* parsed without moving the position, short of the end, is parsed forever.
DeElements(sig, buf, lim, pos, e, acc) ==
    IF pos = lim THEN Done(acc, pos)
    ELSE Then(DeVariant(sig, buf, lim, pos, e), LAMBDA r :
            IF r.pos = pos THEN Fail("Diverges")
            ELSE DeElements(sig, buf, lim, r.pos, e, Append(acc, r.v)))

\* Deserializer::deserialize_tuple_struct, the array reader: the u32 byte
\* length, the padding to the element alignment, then the elements of the slice
DeArray(element_alignment, sig, buf, lim, pos, e) ==
    Then(DeFixed(buf, lim, pos, e, 4), LAMBDA l :
    Then(DePadTo(buf, lim, l.pos, element_alignment), LAMBDA p :
        IF p.pos + ToLen(l.v) > lim THEN Fail("EndOfInput")
        ELSE DeElements(sig, buf, p.pos + ToLen(l.v), p.pos, e, <<>>)))

\* Deserializer::deserialize_struct
DeStruct(sigs, buf, lim, pos, e) ==
    Then(DePadTo(buf, lim, pos, 8), LAMBDA p : DeEach(sigs, buf, lim, p.pos, e, <<>>))

\* the constructor Variant::deserialize gives the elements of an array
ArrayOf(element, r) ==
    IF ~r.ok THEN r
    ELSE IF SpecialArrayTag(element) = "Array" THEN Done(VArray(element, r.v), r.pos)
    ELSE Done([t |-> SpecialArrayTag(element), v |-> [i \in 1..Len(r.v) |-> r.v[i].v]],
              r.pos)

\* Variant::deserialize
DeVariant(sig, buf, lim, pos, e) ==
    CASE sig.t = "Array" ->
            IF sig.element.t = "U8" THEN Tagged("ArrayU8", DeArrayU8(buf, lim, pos, e))
            ELSE ArrayOf(sig.element,
                         DeArray(Alignment(sig.element), sig.element, buf, lim, pos, e))
      [] sig.t = "Bool" -> Tagged("Bool", DeBool(buf, lim, pos, e))
      [] sig.t = "DictEntry" ->
            Then(DeStruct(<<sig.key, sig.value>>, buf, lim, pos, e), LAMBDA r :
                Done(VDictEntry(r.v[1], r.v[2]), r.pos))
      [] sig.t \in {"F64", "I64", "U64"} -> Tagged(sig.t, DeFixed(buf, lim, pos, e, 8))
      [] sig.t \in {"I32", "U32", "UnixFd"} -> Tagged(sig.t, DeFixed(buf, lim, pos, e, 4))
      [] sig.t \in {"I16", "U16"} -> Tagged(sig.t, DeFixed(buf, lim, pos, e, 2))
      [] sig.t \in {"ObjectPath", "String"} -> Tagged(sig.t, DeString(buf, lim, pos, e))
      [] sig.t = "Signature" -> Tagged("Signature", DeSignature(buf, lim, pos))
      [] sig.t = "Struct" -> Tagged("Struct", DeStruct(sig.fields, buf, lim, pos, e))
      [] sig.t = "Tuple" -> Tagged("Tuple", DeEach(sig.elements, buf, lim, pos, e, <<>>))
      [] sig.t = "U8" -> Tagged("U8", DeU8(buf, lim, pos))
      [] sig.t = "Variant" ->
            Then(DeSignature(buf, lim, pos), LAMBDA s :
                Tagged("Variant", DeVariant(s.v, buf, lim, s.pos, e)))

\* Deserializer::new(buf, 0, endianness), then Variant::deserialize
Deserialize(sig, buf, e) == DeVariant(sig, buf, Len(buf), 0, e)

(***************************************************************************)
(* Messages.  A header is [type, flags, body_len, serial, fields]; a type  *)
(* is a record tagged by t; a field is [f |-> constructor, v |-> value],   *)
(* Unknown being [f |-> "Unknown", code, v].  An Option is <<>> or <<x>>.  *)
(***************************************************************************)
TError(error_name, reply_serial) ==
    [t |-> "Error", name |-> error_name, reply_serial |-> reply_serial]
TMethodCall(member, path) == [t |-> "MethodCall", member |-> member, path |-> path]
TMethodReturn(reply_serial) == [t |-> "MethodReturn", reply_serial |-> reply_serial]
TSignal(interface, member, path) ==
    [t |-> "Signal", interface |-> interface, member |-> member, path |-> path]

FDestination(s) == [f |-> "Destination", v |-> s]
FErrorName(s) == [f |-> "ErrorName", v |-> s]
FInterface(s) == [f |-> "Interface", v |-> s]
FMember(s) == [f |-> "Member", v |-> s]
FPath(s) == [f |-> "Path", v |-> s]
FReplySerial(w) == [f |-> "ReplySerial", v |-> w]
FSender(s) == [f |-> "Sender", v |-> s]
FSignature(sig) == [f |-> "Signature", v |-> sig]
FUnixFds(w) == [f |-> "UnixFds", v |-> w]
FUnknown(code, value) == [f |-> "Unknown", code |-> code, v |-> value]

MessageHeader(type, flags, body_len, serial, fields) ==
    [type |-> type, flags |-> flags, body_len |-> body_len, serial |-> serial,
     fields |-> fields]

\* flags::NONE
FlagsNone == 0

\* the protocol version byte
ProtocolVersion == 1

\* the endianness markers b'l' and b'B'
MarkerLittle == 108
MarkerBig == 66

\* a marker that is b'l' whatever the endianness
SerMarkerLittle(buf, e) == SerU8(buf, MarkerLittle)

\* EndiannessMarker::serialize
SerMarker(buf, e) == SerU8(buf, IF e = "Little" THEN MarkerLittle ELSE MarkerBig)

\* MessageType::serialize: the type byte
TypeCode(type) ==
    CASE type.t = "Error" -> 3
      [] type.t = "MethodCall" -> 1
      [] type.t = "MethodReturn" -> 2
      [] type.t = "Signal" -> 4

\* a code table with the codes of DESTINATION and SENDER exchanged
FieldCodeSwapped(field) ==
    CASE field.f = "Destination" -> 7
      [] field.f = "ErrorName" -> 4
      [] field.f = "Interface" -> 2
      [] field.f = "Member" -> 3
      [] field.f = "Path" -> 1
      [] field.f = "ReplySerial" -> 5
      [] field.f = "Sender" -> 6
      [] field.f = "Signature" -> 8
      [] field.f = "UnixFds" -> 9
      [] field.f = "Unknown" -> field.code

\* the (code, value) match of MessageHeaderField::serialize
FieldCode(field) ==
    CASE field.f = "Destination" -> 6
      [] field.f = "ErrorName" -> 4
      [] field.f = "Interface" -> 2
      [] field.f = "Member" -> 3
      [] field.f = "Path" -> 1
      [] field.f = "ReplySerial" -> 5
      [] field.f = "Sender" -> 7
      [] field.f = "Signature" -> 8
      [] field.f = "UnixFds" -> 9
      [] field.f = "Unknown" -> field.code

FieldValue(field) ==
    CASE field.f \in {"Destination", "ErrorName", "Interface", "Member", "Sender"} ->
            VString(field.v)
      [] field.f = "Path" -> VObjectPath(field.v)
      [] field.f \in {"ReplySerial", "UnixFds"} -> VU32(field.v)
      [] field.f = "Signature" -> VSignature(field.v)
      [] field.f = "Unknown" -> field.v

\* MessageHeaderField::serialize: a struct of the code, the value's signature, the value
SerField(field, buf, start, e) ==
    SerRest(SerSignature(SerU8(SerPadTo(buf, start, 8), FieldCode(field)),
                         inner_signature(FieldValue(field))),
            <<FieldValue(field)>>, start, e)

RECURSIVE SerFields(_, _, _, _)
RECURSIVE SerFieldsRest(_, _, _, _)

\* the element loop of serialize_array over the header fields
SerFields(fields, buf, start, e) ==
    IF fields = <<>> THEN [ok |-> TRUE, buf |-> buf]
    ELSE SerFieldsRest(SerField(Head(fields), buf, start, e), Tail(fields), start, e)

SerFieldsRest(r, fields, start, e) ==
    IF r.ok THEN SerFields(fields, r.buf, start, e) ELSE r

\* the fixed part of MessageHeader::serialize: type, flags, version, body_len, serial
SerHeaderFixed(header, buf, start, e) ==
    SerFixed(SerFixed(SerU8(SerU8(SerU8(buf, TypeCode(header.type)), header.flags),
                            ProtocolVersion),
                      start, e, U32(header.body_len)),
             start, e, header.serial)

\* serialize_array(1, fields, MessageHeaderField::serialize): b1 is the buffer
\* after the placeholder
SerHeaderFields(fields, b1, start, e) ==
    SerArrayEnd(SerFields(fields, SerPadTo(b1, start, 1), start, e),
                Len(b1) - 4, Len(SerPadTo(b1, start, 1)), e)

\* MessageHeader::serialize
SerHeader(header, buf, start, e) ==
    SerHeaderFields(header.fields,
                    SerFixed(SerHeaderFixed(header, buf, start, e), start, e, U32(0)),
                    start, e)

\* the fields serialize_message pushes for the type, and the type std::mem::take leaves
MandatoryFields(type) ==
    CASE type.t = "Error" -> <<FErrorName(type.name), FReplySerial(type.reply_serial)>>
      [] type.t = "MethodCall" -> <<FMember(type.member), FPath(type.path)>>
      [] type.t = "MethodReturn" -> <<FReplySerial(type.reply_serial)>>
      [] type.t = "Signal" ->
            <<FInterface(type.interface), FMember(type.member), FPath(type.path)>>

TakenType(type) ==
    CASE type.t = "Error" -> TError(<<>>, type.reply_serial)
      [] type.t = "MethodCall" -> TMethodCall(<<>>, <<>>)
      [] type.t = "MethodReturn" -> type
      [] type.t = "Signal" -> TSignal(<<>>, <<>>, <<>>)

\* the end of serialize_message: r is what header.serialize gave; the padding
\* to 8 and the serialized body follow, unless it failed
SerMessageEnd(r, header, start, body_bytes) ==
    IF ~r.ok THEN [ok |-> FALSE, buf |-> r.buf, header |-> header]
    ELSE [ok |-> TRUE, buf |-> SerPadTo(r.buf, start, 8) \o body_bytes, header |-> header]

\* the marker and the header, then the end
SerMessage(header, buf, e, body_bytes) ==
    SerMessageEnd(SerHeader(header, SerMarker(buf, e), Len(buf), e), header, Len(buf),
                  body_bytes)

\* serialize_message with a body, body_serialized being what body.serialize gave
SerMessageBody(header, body, body_serialized, buf, e) ==
    IF ~body_serialized.ok THEN [ok |-> FALSE, buf |-> buf, header |-> header]
    ELSE SerMessage([header EXCEPT !.body_len = Len(body_serialized.buf),
                                   !.fields = Append(@, FSignature(inner_signature(body)))],
                    buf, e, body_serialized.buf)

\* the header after the push of its type's mandatory fields
WithMandatory(header) ==
    [header EXCEPT !.fields = @ \o MandatoryFields(header.type), !.type = TakenType(@)]

\* serialize_message(header, body, buf, endianness): [ok, buf, header], the
\* buffer and the header as the call leaves them, on an error too
serialize_message(header, body, buf, e) ==
    IF body = <<>> THEN SerMessage(WithMandatory(header), buf, e, <<>>)
    ELSE SerMessageBody(WithMandatory(header), body[1], Serialize(body[1], e), buf, e)

\* EndiannessMarker::deserialize
DeMarker(buf, lim, pos) ==
    Then(DeU8(buf, lim, pos), LAMBDA r :
        IF r.v = MarkerBig THEN Done("Big", r.pos)
        ELSE IF r.v = MarkerLittle THEN Done("Little", r.pos)
        ELSE Fail("InvalidValue"))

\* the (code, value) match of MessageHeaderField::deserialize
FieldFrom(code, value) ==
    CASE code = 1 -> IF value.t = "ObjectPath" THEN <<FPath(value.v)>> ELSE <<>>
      [] code = 2 -> IF value.t = "String" THEN <<FInterface(value.v)>> ELSE <<>>
      [] code = 3 -> IF value.t = "String" THEN <<FMember(value.v)>> ELSE <<>>
      [] code = 4 -> IF value.t = "String" THEN <<FErrorName(value.v)>> ELSE <<>>
      [] code = 5 -> IF value.t = "U32" THEN <<FReplySerial(value.v)>> ELSE <<>>
      [] code = 6 -> IF value.t = "String" THEN <<FDestination(value.v)>> ELSE <<>>
      [] code = 7 -> IF value.t = "String" THEN <<FSender(value.v)>> ELSE <<>>
      [] code = 8 -> IF value.t = "Signature" THEN <<FSignature(value.v)>> ELSE <<>>
      [] code = 9 -> IF value.t = "U32" THEN <<FUnixFds(value.v)>> ELSE <<>>
      [] OTHER -> <<FUnknown(code, value)>>

\* the field of a code and a value, or the InvalidValue of the match
DeFieldEnd(field, pos) ==
    IF field = <<>> THEN Fail("InvalidValue") ELSE Done(field[1], pos)

\* MessageHeaderField::deserialize
DeField(buf, lim, pos, e) ==
    Then(DePadTo(buf, lim, pos, 8), LAMBDA p :
    Then(DeU8(buf, lim, p.pos), LAMBDA code :
    Then(DeSignature(buf, lim, code.pos), LAMBDA signature :
    Then(DeVariant(signature.v, buf, lim, signature.pos, e), LAMBDA value :
        DeFieldEnd(FieldFrom(code.v, value.v), value.pos)))))

RECURSIVE DeFields(_, _, _, _, _)

\* the element loop of deserialize_array over the header fields
DeFields(buf, lim, pos, e, acc) ==
    IF pos = lim THEN Done(acc, pos)
    ELSE Then(DeField(buf, lim, pos, e), LAMBDA r :
            DeFields(buf, lim, r.pos, e, Append(acc, r.v)))

RECURSIVE Extract(_, _, _)

\* the for loop of MessageType::from: each type-mandatory field of the type
\* replaces the one kept so far, every other field is pushed to other_fields
Extract(type, fields, acc) ==
    IF fields = <<>> THEN acc
    ELSE LET field == Head(fields)
             mine ==
                 \/ field.f = "ErrorName" /\ type = 3
                 \/ field.f = "Interface" /\ type = 4
                 \/ field.f = "Member" /\ (type = 1 \/ type = 4)
                 \/ field.f = "Path" /\ (type = 1 \/ type = 4)
                 \/ field.f = "ReplySerial" /\ (type = 2 \/ type = 3)
         IN  IF mine
             THEN Extract(type, Tail(fields), [acc EXCEPT ![field.f] = <<field.v>>])
             ELSE Extract(type, Tail(fields),
                          [acc EXCEPT !.other_fields = Append(@, field)])

\* the match on the type of MessageType::from, x being what the loop extracted
TypeOf(type, x) ==
    CASE type = 1 ->
            IF x.Member = <<>> \/ x.Path = <<>>
            THEN Fail("MissingRequiredMessageHeaderField")
            ELSE [ok |-> TRUE, type |-> TMethodCall(x.Member[1], x.Path[1]),
                  fields |-> x.other_fields]
      [] type = 2 ->
            IF x.ReplySerial = <<>> THEN Fail("MissingRequiredMessageHeaderField")
            ELSE [ok |-> TRUE, type |-> TMethodReturn(x.ReplySerial[1]),
                  fields |-> x.other_fields]
      [] type = 3 ->
            IF x.ErrorName = <<>> \/ x.ReplySerial = <<>>
            THEN Fail("MissingRequiredMessageHeaderField")
            ELSE [ok |-> TRUE, type |-> TError(x.ErrorName[1], x.ReplySerial[1]),
                  fields |-> x.other_fields]
      [] type = 4 ->
            IF x.Interface = <<>> \/ x.Member = <<>> \/ x.Path = <<>>
            THEN Fail("MissingRequiredMessageHeaderField")
            ELSE [ok |-> TRUE, type |-> TSignal(x.Interface[1], x.Member[1], x.Path[1]),
                  fields |-> x.other_fields]
      [] OTHER -> Fail("InvalidValue")

\* a MessageType::from that copies the mandatory fields and leaves them in the list
MessageTypeFromKeep(type, fields) ==
    TypeOf(type, [Extract(type, fields,
                          [other_fields |-> <<>>, ErrorName |-> <<>>, Interface |-> <<>>,
                           Member |-> <<>>, Path |-> <<>>, ReplySerial |-> <<>>])
                  EXCEPT !.other_fields = fields])

\* MessageType::from
MessageTypeFrom(type, fields) ==
    TypeOf(type, Extract(type, fields,
                         [other_fields |-> <<>>, ErrorName |-> <<>>, Interface |-> <<>>,
                          Member |-> <<>>, Path |-> <<>>, ReplySerial |-> <<>>]))

\* deserialize_array(8, MessageHeaderField::deserialize)
DeHeaderFields(buf, lim, pos, e) ==
    Then(DeFixed(buf, lim, pos, e, 4), LAMBDA l :
    Then(DePadTo(buf, lim, l.pos, 8), LAMBDA p :
        IF p.pos + ToLen(l.v) > lim THEN Fail("EndOfInput")
        ELSE DeFields(buf, p.pos + ToLen(l.v), p.pos, e, <<>>)))

\* the end of MessageHeader::deserialize
DeHeaderEnd(from, flags, body_len, serial, pos) ==
    IF ~from.ok THEN from
    ELSE Done(MessageHeader(from.type, flags, body_len, serial, from.fields), pos)

\* MessageHeader::deserialize
DeHeader(buf, lim, pos, e) ==
    Then(DeU8(buf, lim, pos), LAMBDA type :
    Then(DeU8(buf, lim, type.pos), LAMBDA flags :
    Then(DeU8(buf, lim, flags.pos), LAMBDA protocol_version :
        IF protocol_version.v # ProtocolVersion THEN Fail("InvalidValue")
        ELSE
    Then(DeFixed(buf, lim, protocol_version.pos, e, 4), LAMBDA body_len :
    Then(DeFixed(buf, lim, body_len.pos, e, 4), LAMBDA serial :
    Then(DeHeaderFields(buf, lim, serial.pos, e), LAMBDA fields :
        DeHeaderEnd(MessageTypeFrom(type.v, fields.v), flags.v, ToLen(body_len.v),
                    serial.v, fields.pos)))))))

\* a find_map that gives the last SIGNATURE field
LastSignature(fields) ==
    IF \E i \in 1..Len(fields) : fields[i].f = "Signature"
    THEN <<fields[CHOOSE i \in 1..Len(fields) :
                /\ fields[i].f = "Signature"
                /\ \A j \in (i + 1)..Len(fields) : fields[j].f # "Signature"].v>>
    ELSE <<>>

\* the find_map of deserialize_message: the first SIGNATURE field
FindSignature(fields) ==
    IF \E i \in 1..Len(fields) : fields[i].f = "Signature"
    THEN <<fields[CHOOSE i \in 1..Len(fields) :
                /\ fields[i].f = "Signature"
                /\ \A j \in 1..(i - 1) : fields[j].f # "Signature"].v>>
    ELSE <<>>

\* the end of deserialize_message for a message with a body
DeBodyEnd(message_body, header, body_end_pos) ==
    IF ~message_body.ok THEN message_body
    ELSE [ok |-> TRUE, header |-> header, body |-> <<message_body.v>>,
          read |-> body_end_pos]

\* the body_len > 0 branch of deserialize_message
DeBody(buf, e, header, signature, body_start_pos, body_end_pos) ==
    IF Len(buf) < body_end_pos THEN Fail("EndOfInput")
    ELSE IF signature = <<>> THEN Fail("MissingRequiredMessageHeaderField")
    ELSE DeBodyEnd(DeVariant(signature[1], buf, body_end_pos, body_start_pos, e),
                   header, body_end_pos)

\* deserialize_message(buf): [ok, header, body, read] or [ok |-> FALSE, err]
deserialize_message(buf) ==
    Then(DeMarker(buf, Len(buf), 0), LAMBDA marker :
    Then(DeHeader(buf, Len(buf), marker.pos, marker.v), LAMBDA message_header :
    Then(DePadTo(buf, Len(buf), message_header.pos, 8), LAMBDA p :
        IF message_header.v.body_len > 0
        THEN DeBody(buf, marker.v, message_header.v,
                    FindSignature(message_header.v.fields),
                    p.pos, p.pos + message_header.v.body_len)
        ELSE [ok |-> TRUE, header |-> message_header.v, body |-> <<>>, read |-> p.pos])))

(***************************************************************************)
(* Connection: the read buffer, the write buffer and the socket            *)
(***************************************************************************)
\* &read_buf[..read_end]
ReadSlice(buf, end) == SubSeq(buf, 1, end)

\* a buffer whose bytes stay where they are
NoCopy(buf, end, read) == buf

\* read_buf.copy_within(read..read_end, 0)
CopyWithin(buf, end, read) ==
    [i \in 1..Len(buf) |-> IF i <= end - read THEN buf[i + read] ELSE buf[i]]

\* if read_end == read_buf.len() { read_buf.resize(read_buf.len() * 2, 0) }
Grow(buf, end) == IF end = Len(buf) THEN buf \o Zeros(Len(buf)) ELSE buf

\* reader.read(&mut read_buf[read_end..]) having returned the bytes data
ReadInto(buf, end, data) ==
    [i \in 1..Len(buf) |->
        IF i > end /\ i <= end + Len(data) THEN data[i - end] ELSE buf[i]]

\* a short read of the model
ShortRead == 8

\* the numbers of bytes one read returns: at least one, at most what the peer
\* has written and what the slice holds; all of that, or a short read
ReadSizes(avail, space) == {Min(ShortRead, Min(avail, space)), Min(avail, space)}

(***************************************************************************)
(* The peer: the frames the bus writes to the socket                       *)
(***************************************************************************)
\* strings of the model (byte codes)
StrName == <<58, 49>>
StrE == <<101>>
StrI == <<105>>
StrM == <<109>>
StrPath == <<47>>

\* the strings of the Hello call: "org.freedesktop.DBus", "/org/freedesktop/DBus", "Hello"
StrBus == <<111, 114, 103, 46, 102, 114, 101, 101, 100, 101, 115, 107, 116, 111, 112,
            46, 68, 66, 117, 115>>
StrBusPath == <<47, 111, 114, 103, 47, 102, 114, 101, 101, 100, 101, 115, 107, 116,
                111, 112, 47, 68, 66, 117, 115>>
StrHello == <<72, 101, 108, 108, 111>>

\* the serial the peer puts on its own messages
PeerSerial == 9

\* how many frames the peer sends in one behaviour
MaxPeer == 3

\* how many operations the caller starts on the Client after Client::new
MaxOps == 2

\* the reply serials the peer uses
ReplySerials == {1, 2}

\* the string the peer returns in its reply to the serial: ":1" (StrName), ":2"
PeerName(s) == <<58, 48 + s>>

\* what the peer may send: the message as (header, body) of serialize_message
PeerMessage(kind) ==
    CASE kind.k = "Ret" ->
            [header |-> MessageHeader(TMethodReturn(U32(kind.s)), FlagsNone, 0,
                                      U32(PeerSerial), <<>>),
             body |-> <<VString(PeerName(kind.s))>>]
      [] kind.k = "RetEmpty" ->
            [header |-> MessageHeader(TMethodReturn(U32(kind.s)), FlagsNone, 0,
                                      U32(PeerSerial), <<>>),
             body |-> <<>>]
      [] kind.k = "Err" ->
            [header |-> MessageHeader(TError(StrE, U32(kind.s)), FlagsNone, 0,
                                      U32(PeerSerial), <<>>),
             body |-> <<>>]
      [] kind.k = "Sig" ->
            [header |-> MessageHeader(TSignal(StrI, StrM, StrPath), FlagsNone, 0,
                                      U32(PeerSerial), <<>>),
             body |-> <<>>]
      [] kind.k = "Call" ->
            [header |-> MessageHeader(TMethodCall(StrM, StrPath), FlagsNone, 0,
                                      U32(PeerSerial), <<>>),
             body |-> <<>>]

PeerKinds ==
    [k : {"Ret"}, s : ReplySerials] \cup [k : {"Err"}, s : {2}]
        \cup [k : {"Sig", "Bad"}, s : {0}]

\* the bytes of a frame; "Bad" is a frame with an unknown endianness marker
PeerFrame(kind) ==
    IF kind.k = "Bad" THEN <<0>>
    ELSE serialize_message(PeerMessage(kind).header, PeerMessage(kind).body, <<>>,
                           "Little").buf

(***************************************************************************)
(* Client                                                                  *)
(***************************************************************************)
\* a connection left in place where the code takes it
NotTaken == "some"

\* what self.connection.take() leaves in Client::connection
Taken == "none"

\* self.last_serial.wrapping_add(1)
WrappingSerial(serial) == U32Succ(serial)

\* self.last_serial % u32::max_value() + 1
NextSerial(serial) == U32Succ(U32RemMax(serial))

\* a send that leaves the caller's serial in the header
StampedKeep(header, serial) ==
    [header EXCEPT !.fields = IF name = <<>> THEN @ ELSE Append(@, FSender(name[1]))]

\* header.serial = self.last_serial, and the push of SENDER when the name is known
Stamped(header, serial) ==
    [header EXCEPT !.serial = serial,
                   !.fields = IF name = <<>> THEN @ ELSE Append(@, FSender(name[1]))]

\* the end of Client::send, r being what serialize_message gave: a failure
\* takes the connection, and so does a failure of the flush
SendOutcome(r, serial) ==
    IF ~r.ok
    THEN [connection |-> Taken, last_serial |-> serial, write_buf |-> r.buf,
          written |-> <<>>, header |-> r.header,
          result |-> [r |-> "Err", err |-> "Serialize"]]
    ELSE IF sock = "broken"
    THEN [connection |-> Taken, last_serial |-> serial, write_buf |-> r.buf,
          written |-> <<>>, header |-> r.header, result |-> [r |-> "Err", err |-> "Io"]]
    ELSE [connection |-> "some", last_serial |-> serial, write_buf |-> <<>>,
          written |-> r.buf, header |-> r.header,
          result |-> [r |-> "Ok", err |-> "none"]]

\* Client::send(header, body) run from the current state: the values it
\* leaves in the Client's and the Connection's fields, the bytes it wrote to
\* the socket, and its result
ClientSend(header, body) ==
    IF connection = "none"
    THEN [connection |-> connection, last_serial |-> last_serial,
          write_buf |-> write_buf, written |-> <<>>, header |-> header,
          result |-> [r |-> "Err", err |-> "Poisoned"]]
    ELSE SendOutcome(serialize_message(Stamped(header, NextSerial(last_serial)), body,
                                       write_buf, write_endianness),
                     NextSerial(last_serial))

\* a request header without the DESTINATION field
RequestHeaderNoDestination(destination, path, interface, member) ==
    MessageHeader(TMethodCall(member, path), FlagsNone, 0, U32(0),
                  <<FInterface(interface)>>)

\* the request header Client::method_call builds
RequestHeader(destination, path, interface, member) ==
    MessageHeader(TMethodCall(member, path), FlagsNone, 0, U32(0),
                  <<FDestination(destination), FInterface(interface)>>)

\* a predicate that accepts a reply to any serial
IsAnyReply(serial, header) == header.type.t \in {"Error", "MethodReturn"}

\* a predicate that accepts no message
IsReplyToNone(serial, header) == FALSE

\* the predicate Client::method_call gives recv_matching
IsReplyTo(serial, header) ==
    /\ header.type.t \in {"Error", "MethodReturn"}
    /\ header.type.reply_serial = serial

\* the predicates of the model: a caller's (signals only) and method_call's
Matches(pred, header) ==
    CASE pred.k = "Reply" -> IsReplyTo(pred.serial, header)
      [] pred.k = "Signal" -> header.type.t = "Signal"
      [] pred.k = "Any" -> TRUE

\* the index of the last held message the predicate accepts, 0 if none
LastMatch(pred, held) ==
    IF \E i \in 1..Len(held) : Matches(pred, held[i].header)
    THEN CHOOSE i \in 1..Len(held) :
            /\ Matches(pred, held[i].header)
            /\ \A j \in (i + 1)..Len(held) : ~Matches(pred, held[j].header)
    ELSE 0

\* the index of the first held message the predicate accepts, 0 if none
FirstMatch(pred, held) ==
    IF \E i \in 1..Len(held) : Matches(pred, held[i].header)
    THEN CHOOSE i \in 1..Len(held) :
            /\ Matches(pred, held[i].header)
            /\ \A j \in 1..(i - 1) : ~Matches(pred, held[j].header)
    ELSE 0

\* VecDeque::remove(i)
RemoveAt(q, i) == SubSeq(q, 1, i - 1) \o SubSeq(q, i + 1, Len(q))

\* a pop that takes the newest message off the queue
PopBack(q) == SubSeq(q, 1, Len(q) - 1)

\* what VecDeque::pop_front leaves of a queue that is not empty
PopFront(q) == Tail(q)

\* VecDeque::push_front
PushFront(q, message) == <<message>> \o q

\* VecDeque::push_back
PushBack(q, message) == Append(q, message)

\* what an operation returned, as the history keeps it: the operation, "Ok",
\* "Err" or "pending", the error, and for a returned message its arrival
\* number id, whether it came from the held queue, its body, and the error name
NoResult ==
    [op |-> "none", r |-> "none", err |-> "none", id |-> 0, held |-> FALSE,
     serial |-> U32(0), name |-> <<>>, body |-> <<>>, pred |-> [k |-> "Any"],
     header |-> <<>>, written |-> <<>>]

Pending(op) == [NoResult EXCEPT !.op = op, !.r = "pending"]

Failed(op, err) == [NoResult EXCEPT !.op = op, !.r = "Err", !.err = err]

\* Ok((header, body)) of recv and recv_matching
Received(op, pred, message, held) ==
    [NoResult EXCEPT !.op = op, !.r = "Ok", !.id = message.id, !.held = held,
                     !.body = message.body, !.pred = pred]

\* the match of Client::method_call on the response to the request serial:
\* Err(MethodCallError::Error(name, body)) or Ok(body)
MethodCallResult(op, serial, message, held) ==
    IF message.header.type.t = "Error"
    THEN [NoResult EXCEPT !.op = op, !.r = "Err", !.err = "Error", !.id = message.id,
                          !.held = held, !.serial = serial, !.body = message.body,
                          !.name = message.header.type.name]
    ELSE [NoResult EXCEPT !.op = op, !.r = "Ok", !.id = message.id, !.held = held,
                          !.serial = serial, !.body = message.body]

\* a signature whose text is longer than a u8 length can say
LongSignature == SigTuple([i \in 1..(U8Limit + 1) |-> SigU8])

\* the inputs of the caller
SendInputs ==
    {[header |-> MessageHeader(TMethodReturn(U32(PeerSerial)), FlagsNone, 0, U32(0), <<>>),
      body |-> <<VU8(7)>>],
     [header |-> MessageHeader(TMethodReturn(U32(PeerSerial)), FlagsNone, 0, U32(0),
                               <<FUnknown(PeerSerial, VSignature(LongSignature))>>),
      body |-> <<>>]}

CallerPredicates == {[k |-> "Signal"]}

Idle == [op |-> "idle", pred |-> [k |-> "Any"]]

InLoop == call.op \in {"new", "method_call", "recv", "recv_matching"}

(***************************************************************************)
(* The Client over its Connection: state after Connection::new, then       *)
(* Client::new, then the caller's operations, against a peer that writes   *)
(* frames, closes, or breaks the link at any time.                         *)
(***************************************************************************)
NoCodec == [phase |-> "off"]

\* Connection::new after the SASL exchange: read_buf is one zero byte, read_end 0
InitConnection ==
    /\ sock_in = <<>>
    /\ sock = "open"
    /\ wire_out = <<>>
    /\ read_buf = <<0>>
    /\ read_end = 0
    /\ write_buf = <<>>
    /\ write_endianness \in Endiannesses

InitHist ==
    [sent |-> <<>>, got |-> <<>>, delivered |-> <<>>, issued |-> <<>>, ops |-> 0,
     failed |-> FALSE, result |-> NoResult]

Init ==
    /\ InitConnection
    /\ connection = "some"
    /\ last_serial = U32(0)
    /\ name = <<>>
    /\ received_messages = <<>>
    /\ call = [op |-> "start", pred |-> [k |-> "Any"]]
    /\ hist = InitHist
    /\ codec = NoCodec

\* the peer writes one frame
PeerSend ==
    /\ sock = "open"
    /\ Len(hist.sent) < MaxPeer
    /\ \E kind \in PeerKinds :
        /\ sock_in' = sock_in \o PeerFrame(kind)
        /\ hist' = [hist EXCEPT !.sent = Append(@, kind)]
    /\ UNCHANGED <<sock, wire_out, read_buf, read_end, write_buf, write_endianness,
                   connection, last_serial, name, received_messages, call, codec>>

\* the peer shuts the stream down: reads return 0 once its bytes are drained
PeerClose ==
    /\ sock = "open"
    /\ sock' = "closed"
    /\ UNCHANGED <<sock_in, wire_out, read_buf, read_end, write_buf, write_endianness,
                   connection, last_serial, name, received_messages, call, hist, codec>>

\* the link fails: reads and writes return an error from now on
LinkBreak ==
    /\ sock = "open"
    /\ sock' = "broken"
    /\ UNCHANGED <<sock_in, wire_out, read_buf, read_end, write_buf, write_endianness,
                   connection, last_serial, name, received_messages, call, hist, codec>>

\* the state changes of one Client::send, r being what it gave.  i < 0: the
\* caller is done (send itself, or a failed send).  Otherwise the caller is
\* method_call and i is what recv_matching's scan of the held queue found:
\* the index of the reply, or 0 when the reply is still to be read
SendEffect(r, body, op, i) ==
    /\ connection' = r.connection
    /\ last_serial' = r.last_serial
    /\ write_buf' = r.write_buf
    /\ wire_out' = wire_out \o r.written
    /\ received_messages' = IF i > 0 THEN RemoveAt(received_messages, i)
                            ELSE received_messages
    /\ call' = IF i = 0 THEN [op |-> op, pred |-> [k |-> "Reply", serial |-> r.last_serial]]
               ELSE IF op = "new" THEN [op |-> "failed", pred |-> [k |-> "Any"]]
               ELSE Idle
    /\ hist' = [hist EXCEPT
                  !.issued = IF r.last_serial = last_serial THEN @ ELSE Append(@, r.last_serial),
                  !.ops = IF op = "new" THEN @ ELSE @ + 1,
                  !.delivered = IF i > 0
                                THEN Append(@, [id |-> received_messages[i].id, by |-> op])
                                ELSE @,
                  !.failed = @ \/ r.result.err = "Io",
                  !.result =
                      IF i > 0
                      THEN MethodCallResult(op, r.last_serial, received_messages[i], TRUE)
                      ELSE IF i = 0 THEN Pending(op)
                      ELSE [NoResult EXCEPT !.op = op, !.r = r.result.r,
                                            !.err = r.result.err,
                                            !.serial = r.last_serial,
                                            !.header = <<r.header>>,
                                            !.body = body, !.written = r.written]]

\* a send, and for method_call (~done) the scan of the held queue after it
SendThen(r, body, op, done) ==
    SendEffect(r, body, op,
               IF r.result.r = "Ok" /\ ~done
               THEN FirstMatch([k |-> "Reply", serial |-> r.last_serial], received_messages)
               ELSE 0 - 1)

DoSend(header, body, op, done) == SendThen(ClientSend(header, body), body, op, done)

\* Client::new up to the point where method_call waits for the reply to Hello
ClientNew ==
    /\ call.op = "start"
    /\ DoSend(RequestHeader(StrBus, StrBusPath, StrBus, StrHello), <<>>, "new", FALSE)
    /\ UNCHANGED <<sock_in, sock, read_buf, read_end, write_endianness, name, codec>>

\* Client::send
Send ==
    /\ call.op = "idle"
    /\ hist.ops < MaxOps
    /\ \E input \in SendInputs : DoSend(input.header, input.body, "send", TRUE)
    /\ UNCHANGED <<sock_in, sock, read_buf, read_end, write_endianness, name, codec>>

\* Client::method_call up to the point where recv_matching waits for the reply
MethodCall ==
    /\ call.op = "idle"
    /\ hist.ops < MaxOps
    /\ \E parameters \in {<<VU8(7)>>} :
          DoSend(RequestHeader(StrI, StrPath, StrI, StrM), parameters, "method_call", FALSE)
    /\ UNCHANGED <<sock_in, sock, read_buf, read_end, write_endianness, name, codec>>

\* Client::recv: the head of the held queue, or else recv_new
Recv ==
    /\ call.op = "idle"
    /\ hist.ops < MaxOps
    /\ IF received_messages # <<>>
       THEN /\ received_messages' = PopFront(received_messages)
            /\ call' = Idle
            /\ hist' = [hist EXCEPT
                          !.ops = @ + 1,
                          !.delivered = Append(@, [id |-> Head(received_messages).id,
                                                   by |-> "recv"]),
                          !.result = Received("recv", [k |-> "Any"],
                                              Head(received_messages), TRUE)]
       ELSE /\ received_messages' = received_messages
            /\ call' = [op |-> "recv", pred |-> [k |-> "Any"]]
            /\ hist' = [hist EXCEPT !.ops = @ + 1, !.result = Pending("recv")]
    /\ UNCHANGED <<sock_in, sock, wire_out, read_buf, read_end, write_buf,
                   write_endianness, connection, last_serial, name, codec>>

\* the for loop of Client::recv_matching, i being the index of the first held
\* message the predicate accepts: it is removed and returned; with none (0)
\* the recv_new loop follows
Scanned(pred, i) ==
    IF i > 0
    THEN /\ received_messages' = RemoveAt(received_messages, i)
         /\ call' = Idle
         /\ hist' = [hist EXCEPT
                       !.ops = @ + 1,
                       !.delivered = Append(@, [id |-> received_messages[i].id,
                                                by |-> "recv_matching"]),
                       !.result = Received("recv_matching", pred, received_messages[i],
                                           TRUE)]
    ELSE /\ received_messages' = received_messages
         /\ call' = [op |-> "recv_matching", pred |-> pred]
         /\ hist' = [hist EXCEPT !.ops = @ + 1, !.result = Pending("recv_matching")]

\* Client::recv_matching
RecvMatching ==
    /\ call.op = "idle"
    /\ hist.ops < MaxOps
    /\ \E pred \in CallerPredicates : Scanned(pred, FirstMatch(pred, received_messages))
    /\ UNCHANGED <<sock_in, sock, wire_out, read_buf, read_end, write_buf,
                   write_endianness, connection, last_serial, name, codec>>

\* what deserialize_message makes of the buffered bytes
Parse == deserialize_message(ReadSlice(read_buf, read_end))

\* the error of a parse, "none" when it gave a message
ParseError(parse) == IF parse.ok THEN "none" ELSE parse.err

\* recv_new has returned Err(err): the operation in progress ends with it
RecvFails(err) ==
    /\ call' = IF call.op = "new" THEN [op |-> "failed", pred |-> [k |-> "Any"]] ELSE Idle
    /\ hist' = [hist EXCEPT !.result = Failed(call.op, err),
                            !.failed = @ \/ err \in {"Io", "Deserialize"}]

\* Variant::into_string: the string of a String, or the value given back
IntoString(v) == IF v.t = "String" THEN [ok |-> TRUE, v |-> v.v] ELSE [ok |-> FALSE, v |-> v]

\* recv_new returns message: recv returns it, recv_matching and method_call
\* return it if the predicate accepts it and push it on the held queue otherwise
Returned(message, got, by) ==
    IF call.op = "recv"
    THEN /\ hist' = [hist EXCEPT !.got = got, !.delivered = Append(@, by),
                                 !.result = Received("recv", call.pred, message, FALSE)]
         /\ call' = Idle
         /\ UNCHANGED <<name, received_messages>>
    ELSE IF ~Matches(call.pred, message.header)
    THEN /\ received_messages' = PushBack(received_messages, message)
         /\ hist' = [hist EXCEPT !.got = got]
         /\ UNCHANGED <<name, call>>
    ELSE IF call.op = "recv_matching"
    THEN /\ hist' = [hist EXCEPT !.got = got, !.delivered = Append(@, by),
                                 !.result = Received("recv_matching", call.pred, message,
                                                     FALSE)]
         /\ call' = Idle
         /\ UNCHANGED <<name, received_messages>>
    ELSE LET hello == /\ message.header.type.t = "MethodReturn"
                      /\ message.body # <<>>
                      /\ IntoString(message.body[1]).ok
         IN
         /\ hist' = [hist EXCEPT
                       !.got = got, !.delivered = Append(@, by),
                       !.result = MethodCallResult(call.op, call.pred.serial, message, FALSE)]
         /\ call' = IF call.op = "new" /\ ~hello
                    THEN [op |-> "failed", pred |-> [k |-> "Any"]]
                    ELSE Idle
         /\ name' = IF call.op = "new" /\ hello THEN <<IntoString(message.body[1]).v>>
                    ELSE name
         /\ UNCHANGED received_messages

\* the Ok arm of recv_new: the message is consumed from the buffer and returned
Parsed(parse) ==
    /\ parse.ok
    /\ read_buf' = CopyWithin(read_buf, read_end, parse.read)
    /\ read_end' = read_end - parse.read
    /\ Returned([id |-> Len(hist.got) + 1, header |-> parse.header, body |-> parse.body],
                Append(hist.got, [header |-> parse.header, body |-> parse.body]),
                [id |-> Len(hist.got) + 1, by |-> call.op])

\* recv_new: the buffered bytes hold a whole message; parse is what
\* deserialize_message makes of them
RecvParsedOn(parse) ==
    /\ InLoop
    /\ connection = "some"
    /\ Parsed(parse)
    /\ UNCHANGED <<sock_in, sock, wire_out, write_buf, write_endianness, connection,
                   last_serial>>

RecvParsed == RecvParsedOn(Parse) /\ UNCHANGED codec

\* recv_new: the buffered bytes are the start of a message; one socket read
\* adds to them, into a buffer doubled when it is full
RecvReadOn(parse) ==
    /\ InLoop
    /\ connection = "some"
    /\ ParseError(parse) = "EndOfInput"
    /\ sock # "broken"
    /\ sock_in # <<>>
    /\ \E n \in ReadSizes(Len(sock_in), Len(Grow(read_buf, read_end)) - read_end) :
        /\ read_buf' = ReadInto(Grow(read_buf, read_end), read_end, SubSeq(sock_in, 1, n))
        /\ read_end' = read_end + n
        /\ sock_in' = SubSeq(sock_in, n + 1, Len(sock_in))
    /\ UNCHANGED <<sock, wire_out, write_buf, write_endianness, connection, last_serial,
                   name, received_messages, call, hist>>

RecvRead == RecvReadOn(Parse) /\ UNCHANGED codec

\* recv_new: the read returns 0 (UnexpectedEof); the connection is taken
RecvEofOn(parse) ==
    /\ InLoop
    /\ connection = "some"
    /\ ParseError(parse) = "EndOfInput"
    /\ sock = "closed"
    /\ sock_in = <<>>
    /\ read_buf' = Grow(read_buf, read_end)
    /\ connection' = Taken
    /\ RecvFails("Io")
    /\ UNCHANGED <<sock_in, sock, wire_out, read_end, write_buf, write_endianness,
                   last_serial, name, received_messages>>

RecvEof == RecvEofOn(Parse) /\ UNCHANGED codec

\* recv_new: the read fails; the connection is taken
RecvIoErrorOn(parse) ==
    /\ InLoop
    /\ connection = "some"
    /\ ParseError(parse) = "EndOfInput"
    /\ sock = "broken"
    /\ read_buf' = Grow(read_buf, read_end)
    /\ connection' = Taken
    /\ RecvFails("Io")
    /\ UNCHANGED <<sock_in, sock, wire_out, read_end, write_buf, write_endianness,
                   last_serial, name, received_messages>>

RecvIoError == RecvIoErrorOn(Parse) /\ UNCHANGED codec

\* recv_new: the buffered bytes are not a message; the connection is taken
RecvBadOn(parse) ==
    /\ InLoop
    /\ connection = "some"
    /\ ParseError(parse) \notin {"none", "EndOfInput"}
    /\ connection' = Taken
    /\ RecvFails("Deserialize")
    /\ UNCHANGED <<sock_in, sock, wire_out, read_buf, read_end, write_buf,
                   write_endianness, last_serial, name, received_messages>>

RecvBad == RecvBadOn(Parse) /\ UNCHANGED codec

\* recv_new on a Client whose connection was taken
RecvPoisoned ==
    /\ InLoop
    /\ connection = "none"
    /\ RecvFails("Poisoned")
    /\ UNCHANGED <<sock_in, sock, wire_out, read_buf, read_end, write_buf,
                   write_endianness, connection, last_serial, name, received_messages,
                   codec>>

Next ==
    \/ PeerSend
    \/ PeerClose
    \/ LinkBreak
    \/ ClientNew
    \/ Send
    \/ MethodCall
    \/ Recv
    \/ RecvMatching
    \/ RecvParsed
    \/ RecvRead
    \/ RecvEof
    \/ RecvIoError
    \/ RecvBad
    \/ RecvPoisoned

Spec == Init /\ [][Next]_vars

(***************************************************************************)
(* A Client late in its life: the handshake is done and last_serial has    *)
(* come close to u32::max_value(); the caller keeps sending.               *)
(***************************************************************************)
\* how many sends the caller makes
MaxSends == 4

\* last_serial after Client::new, and after 2^32 - 4 .. 2^32 - 2 sends
LateSerials ==
    {U32(1), <<252, 255, 255, 255>>, <<253, 255, 255, 255>>, <<254, 255, 255, 255>>}

InitLong ==
    /\ InitConnection
    /\ connection = "some"
    /\ \/ /\ last_serial = U32(0)
          /\ name = <<>>
          /\ call = [op |-> "start", pred |-> [k |-> "Any"]]
       \/ /\ last_serial \in LateSerials
          /\ name = <<StrName>>
          /\ call = Idle
    /\ received_messages = <<>>
    /\ hist = InitHist
    /\ codec = NoCodec

\* Client::send, again and again
SendLong ==
    /\ call.op = "idle"
    /\ hist.ops < MaxSends
    /\ \E input \in SendInputs : DoSend(input.header, input.body, "send", TRUE)
    /\ UNCHANGED <<sock_in, sock, read_buf, read_end, write_endianness, name, codec>>

NextLong ==
    \/ ClientNew
    \/ SendLong
    \/ LinkBreak

SpecLong == InitLong /\ [][NextLong]_vars

\* C4: the serials send allocates are never 0; the one after u32::max_value()
\* is 1 and the one after any other is one more; the first of a new Client
\* is 1; the serials of consecutive sends are all different; and the serial
\* is the one written at offset 8 of the message
C4_SerialsSucceedAndWrap ==
    /\ \A i \in 1..Len(hist.issued) : hist.issued[i] # <<0, 0, 0, 0>>
    /\ \A i \in 1..(Len(hist.issued) - 1) :
          hist.issued[i + 1] = IF hist.issued[i] = <<255, 255, 255, 255>>
                               THEN <<1, 0, 0, 0>>
                               ELSE U32Succ(hist.issued[i])
    /\ (hist.result.op = "new" /\ hist.issued # <<>>) => hist.issued[1] = <<1, 0, 0, 0>>
    /\ \A i, j \in 1..Len(hist.issued) : i # j => hist.issued[i] # hist.issued[j]
    /\ hist.issued # <<>> => last_serial = hist.issued[Len(hist.issued)]
    /\ (hist.result.op \in {"send", "new"} /\ hist.result.r \in {"Ok", "pending"})
          => /\ hist.result.serial = last_serial \/ hist.result.r = "pending"
             /\ Len(wire_out) >= 12
    /\ (hist.result.op = "send" /\ hist.result.r = "Ok")
          => /\ hist.result.header[1].serial = last_serial
             /\ SubSeq(hist.result.written, 9, 12) = ToBytes(write_endianness, last_serial)

\* the sends went from u32::max_value() - 1 over u32::max_value() to 1
C4_Witness ==
    /\ Len(hist.issued) >= 3
    /\ hist.issued[Len(hist.issued) - 1] = <<255, 255, 255, 255>>
    /\ hist.issued[Len(hist.issued)] = <<1, 0, 0, 0>>
    /\ hist.result.r = "Ok"

(***************************************************************************)
(* The Connection on its own: Connection::recv and Connection::send called *)
(* by a caller, the socket handing over any number of the waiting bytes at *)
(* each read.                                                              *)
(***************************************************************************)
\* how many calls the caller makes on the Connection
MaxConnOps == 3

\* how many frames the peer writes
MaxConnPeer == 3

ConnKinds == [k : {"Ret"}, s : {1}] \cup [k : {"Sig", "Bad"}, s : {0}]

\* the Connection as Connection::new leaves it on a little-endian target
InitConn ==
    /\ InitConnection
    /\ write_endianness = "Little"
    /\ connection = "some"
    /\ last_serial = U32(0)
    /\ name = <<>>
    /\ received_messages = <<>>
    /\ call = Idle
    /\ hist = InitHist
    /\ codec = NoCodec

ConnPeerSend ==
    /\ sock = "open"
    /\ Len(hist.sent) < MaxConnPeer
    /\ \E kind \in ConnKinds :
        /\ sock_in' = sock_in \o PeerFrame(kind)
        /\ hist' = [hist EXCEPT !.sent = Append(@, kind)]
    /\ UNCHANGED <<sock, wire_out, read_buf, read_end, write_buf, write_endianness,
                   connection, last_serial, name, received_messages, call, codec>>

\* the caller calls Connection::recv
ConnRecv ==
    /\ call.op = "idle"
    /\ hist.ops < MaxConnOps
    /\ call' = [op |-> "conn_recv", pred |-> [k |-> "Any"]]
    /\ hist' = [hist EXCEPT !.ops = @ + 1, !.result = Pending("conn_recv")]
    /\ UNCHANGED <<sock_in, sock, wire_out, read_buf, read_end, write_buf,
                   write_endianness, connection, last_serial, name, received_messages,
                   codec>>

\* the Ok arm of Connection::recv: the bytes after the message move to the
\* front of the buffer and the message is returned
ConnParsedEnd(parse) ==
    /\ parse.ok
    /\ read_buf' = CopyWithin(read_buf, read_end, parse.read)
    /\ read_end' = read_end - parse.read
    /\ call' = Idle
    /\ hist' = [hist EXCEPT
                  !.got = Append(@, [header |-> parse.header, body |-> parse.body]),
                  !.delivered = Append(@, [id |-> Len(hist.got) + 1, by |-> "conn_recv"]),
                  !.result = Received("conn_recv", [k |-> "Any"],
                                      [id |-> Len(hist.got) + 1, header |-> parse.header,
                                       body |-> parse.body], FALSE)]

ConnParsed ==
    /\ call.op = "conn_recv"
    /\ ConnParsedEnd(Parse)
    /\ UNCHANGED <<sock_in, sock, wire_out, write_buf, write_endianness, connection,
                   last_serial, name, received_messages, codec>>

\* the EndOfInput arm: the buffer doubles when it is full, and one read puts
\* between one and all of the waiting bytes that fit behind read_end
ConnRead ==
    /\ call.op = "conn_recv"
    /\ ParseError(Parse) = "EndOfInput"
    /\ sock # "broken"
    /\ sock_in # <<>>
    /\ \E n \in 1..Min(Len(sock_in), Len(Grow(read_buf, read_end)) - read_end) :
        /\ read_buf' = ReadInto(Grow(read_buf, read_end), read_end, SubSeq(sock_in, 1, n))
        /\ read_end' = read_end + n
        /\ sock_in' = SubSeq(sock_in, n + 1, Len(sock_in))
    /\ UNCHANGED <<sock, wire_out, write_buf, write_endianness, connection, last_serial,
                   name, received_messages, call, hist, codec>>

\* the EndOfInput arm when the read returns 0 or fails: Err(RecvError::Io)
ConnReadFails ==
    /\ call.op = "conn_recv"
    /\ ParseError(Parse) = "EndOfInput"
    /\ sock = "broken" \/ (sock = "closed" /\ sock_in = <<>>)
    /\ read_buf' = Grow(read_buf, read_end)
    /\ call' = Idle
    /\ hist' = [hist EXCEPT !.result = Failed("conn_recv", "Io")]
    /\ UNCHANGED <<sock_in, sock, wire_out, read_end, write_buf, write_endianness,
                   connection, last_serial, name, received_messages, codec>>

\* the last arm: Err(RecvError::Deserialize)
ConnBad ==
    /\ call.op = "conn_recv"
    /\ ParseError(Parse) \notin {"none", "EndOfInput"}
    /\ call' = Idle
    /\ hist' = [hist EXCEPT !.result = Failed("conn_recv", "Deserialize")]
    /\ UNCHANGED <<sock_in, sock, wire_out, read_buf, read_end, write_buf,
                   write_endianness, connection, last_serial, name, received_messages,
                   codec>>

\* Connection::send after serialize_message gave r: an error returns at once,
\* else write_all, clear and flush
ConnSendEnd(r) ==
    /\ write_buf' = IF r.ok /\ sock # "broken" THEN <<>> ELSE r.buf
    /\ wire_out' = IF r.ok /\ sock # "broken" THEN wire_out \o r.buf ELSE wire_out
    /\ hist' = [hist EXCEPT
                  !.ops = @ + 1,
                  !.result = [NoResult EXCEPT
                                !.op = "conn_send",
                                !.r = IF r.ok /\ sock # "broken" THEN "Ok" ELSE "Err",
                                !.err = IF ~r.ok THEN "Serialize"
                                        ELSE IF sock = "broken" THEN "Io" ELSE "none",
                                !.written = IF r.ok /\ sock # "broken"
                                            THEN write_buf \o r.buf ELSE <<>>]]

ConnSend ==
    /\ call.op = "idle"
    /\ hist.ops < MaxConnOps
    /\ \E input \in SendInputs :
          ConnSendEnd(serialize_message(input.header, input.body, write_buf,
                                        write_endianness))
    /\ UNCHANGED <<sock_in, sock, read_buf, read_end, write_endianness, connection,
                   last_serial, name, received_messages, call, codec>>

NextConn ==
    \/ ConnPeerSend
    \/ PeerClose
    \/ LinkBreak
    \/ ConnRecv
    \/ ConnParsed
    \/ ConnRead
    \/ ConnReadFails
    \/ ConnBad
    \/ ConnSend

SpecConn == InitConn /\ [][NextConn]_vars

RECURSIVE Frames(_)
\* the bytes of the frames of the given kinds, one after the other
Frames(kinds) ==
    IF kinds = <<>> THEN <<>> ELSE PeerFrame(Head(kinds)) \o Frames(Tail(kinds))

\* C7: the messages Connection::recv has returned are the first messages of
\* the stream the peer wrote, in stream order and once each, however the
\* reads split the stream; the bytes of the stream behind the returned
\* messages are the bytes at the front of the read buffer followed by the
\* bytes still in the socket; and read_end stays within the buffer
C7_RecvReturnsTheStream ==
    /\ read_end <= Len(read_buf)
    /\ Len(hist.got) <= Len(hist.sent)
    /\ \A i \in 1..Len(hist.got) :
          /\ hist.sent[i].k # "Bad"
          /\ hist.got[i].header.type = PeerMessage(hist.sent[i]).header.type
          /\ hist.got[i].header.serial = PeerMessage(hist.sent[i]).header.serial
          /\ hist.got[i].body = PeerMessage(hist.sent[i]).body
          /\ hist.delivered[i].id = i
    /\ Len(hist.delivered) = Len(hist.got)
    /\ Frames(hist.sent) = Frames(SubSeq(hist.sent, 1, Len(hist.got)))
                              \o ReadSlice(read_buf, read_end) \o sock_in

\* recv returned the second message after reads that had put bytes of both
\* messages into the buffer at once, and bytes of a third wait at the front
C7_Witness ==
    /\ Len(hist.got) = 2
    /\ hist.result.op = "conn_recv"
    /\ hist.result.r = "Ok"
    /\ read_end > 0
    /\ sock_in # <<>>

(***************************************************************************)
(* The Variant codec on its own: a value is serialized, the bytes are      *)
(* deserialized with the value's signature, and the result is serialized   *)
(* again; the byte strings of test_variant_serde go the same way from      *)
(* their second step on.                                                   *)
(***************************************************************************)
RECURSIVE SameSignature(_, _)
\* PartialEq of Signature (derived): the same constructor over equal parts
SameSignature(a, b) ==
    /\ a.t = b.t
    /\ CASE a.t = "Array" -> SameSignature(a.element, b.element)
         [] a.t = "DictEntry" -> SameSignature(a.key, b.key) /\ SameSignature(a.value, b.value)
         [] a.t = "Struct" ->
               /\ Len(a.fields) = Len(b.fields)
               /\ \A i \in 1..Len(a.fields) : SameSignature(a.fields[i], b.fields[i])
         [] a.t = "Tuple" ->
               /\ Len(a.elements) = Len(b.elements)
               /\ \A i \in 1..Len(a.elements) : SameSignature(a.elements[i], b.elements[i])
         [] OTHER -> TRUE

RECURSIVE SameVariant(_, _)
\* PartialEq of Variant (derived): the same constructor over equal contents
SameVariant(a, b) ==
    /\ a.t = b.t
    /\ CASE a.t = "Array" ->
               /\ SameSignature(a.v.element_signature, b.v.element_signature)
               /\ Len(a.v.elements) = Len(b.v.elements)
               /\ \A i \in 1..Len(a.v.elements) :
                     SameVariant(a.v.elements[i], b.v.elements[i])
         [] a.t = "DictEntry" ->
               SameVariant(a.v.key, b.v.key) /\ SameVariant(a.v.value, b.v.value)
         [] a.t \in {"Struct", "Tuple"} ->
               /\ Len(a.v) = Len(b.v)
               /\ \A i \in 1..Len(a.v) : SameVariant(a.v[i], b.v[i])
         [] a.t = "Signature" -> SameSignature(a.v, b.v)
         [] a.t = "Variant" -> SameVariant(a.v, b.v)
         [] OTHER -> a.v = b.v

\* the signatures and byte strings of the calls of test in test_variant_serde
TestVectors ==
    {[text |-> <<97, 116>>, bytes |-> <<8, 0, 0, 0, 0, 0, 0, 0, 8, 7, 6, 5, 4, 3, 2, 1>>],
     [text |-> <<121, 97, 116>>, bytes |-> <<5, 0, 0, 0, 8, 0, 0, 0, 8, 7, 6, 5, 4, 3, 2,
           1>>],
     [text |-> <<97, 116>>, bytes |-> <<0, 0, 0, 0, 0, 0, 0, 0>>],
     [text |-> <<121, 97, 116>>, bytes |-> <<5, 0, 0, 0, 0, 0, 0, 0>>],
     [text |-> <<97, 117>>, bytes |-> <<8, 0, 0, 0, 4, 3, 2, 1, 8, 7, 6, 5>>],
     [text |-> <<121, 97, 117>>, bytes |-> <<5, 0, 0, 0, 8, 0, 0, 0, 4, 3, 2, 1, 8, 7, 6,
           5>>],
     [text |-> <<97, 121>>, bytes |-> <<8, 0, 0, 0, 1, 2, 3, 4, 5, 6, 7, 8>>],
     [text |-> <<121, 97, 121>>, bytes |-> <<5, 0, 0, 0, 8, 0, 0, 0, 1, 2, 3, 4, 5, 6, 7,
           8>>],
     [text |-> <<98>>, bytes |-> <<0, 0, 0, 0>>],
     [text |-> <<98>>, bytes |-> <<1, 0, 0, 0>>],
     [text |-> <<121, 98>>, bytes |-> <<5, 0, 0, 0, 1, 0, 0, 0>>],
     [text |-> <<97, 123, 113, 115, 125>>, bytes |-> <<61, 0, 0, 0, 0, 0, 0, 0, 2, 1, 0,
           0, 21, 0, 0, 0, 47, 111, 114, 103, 47, 102, 114, 101, 101, 100, 101, 115, 107,
           116, 111, 112, 47, 68, 66, 117, 115, 0, 0, 0, 4, 3, 0, 0, 20, 0, 0, 0, 111,
           114, 103, 46, 102, 114, 101, 101, 100, 101, 115, 107, 116, 111, 112, 46, 68,
           66, 117, 115, 0>>],
     [text |-> <<121, 97, 123, 113, 115, 125>>, bytes |-> <<5, 0, 0, 0, 61, 0, 0, 0, 2,
           1, 0, 0, 21, 0, 0, 0, 47, 111, 114, 103, 47, 102, 114, 101, 101, 100, 101,
           115, 107, 116, 111, 112, 47, 68, 66, 117, 115, 0, 0, 0, 4, 3, 0, 0, 20, 0, 0,
           0, 111, 114, 103, 46, 102, 114, 101, 101, 100, 101, 115, 107, 116, 111, 112,
           46, 68, 66, 117, 115, 0>>],
     [text |-> <<100>>, bytes |-> <<88, 57, 180, 200, 118, 190, 243, 63>>],
     [text |-> <<121, 100>>, bytes |-> <<5, 0, 0, 0, 0, 0, 0, 0, 88, 57, 180, 200, 118,
           190, 243, 63>>],
     [text |-> <<103>>, bytes |-> <<0, 0>>],
     [text |-> <<103>>, bytes |-> <<1, 115, 0>>],
     [text |-> <<103>>, bytes |-> <<5, 40, 97, 117, 115, 41, 0>>],
     [text |-> <<103>>, bytes |-> <<5, 97, 123, 117, 115, 125, 0>>],
     [text |-> <<121, 103>>, bytes |-> <<5, 1, 115, 0>>],
     [text |-> <<104>>, bytes |-> <<4, 3, 2, 1>>],
     [text |-> <<121, 104>>, bytes |-> <<5, 0, 0, 0, 4, 3, 2, 1>>],
     [text |-> <<105>>, bytes |-> <<0, 0, 0, 1>>],
     [text |-> <<121, 105>>, bytes |-> <<5, 0, 0, 0, 4, 3, 2, 1>>],
     [text |-> <<110>>, bytes |-> <<2, 1>>],
     [text |-> <<121, 110>>, bytes |-> <<5, 0, 2, 1>>],
     [text |-> <<111>>, bytes |-> <<21, 0, 0, 0, 47, 111, 114, 103, 47, 102, 114, 101,
           101, 100, 101, 115, 107, 116, 111, 112, 47, 68, 66, 117, 115, 0>>],
     [text |-> <<121, 111>>, bytes |-> <<5, 0, 0, 0, 21, 0, 0, 0, 47, 111, 114, 103, 47,
           102, 114, 101, 101, 100, 101, 115, 107, 116, 111, 112, 47, 68, 66, 117, 115,
           0>>],
     [text |-> <<113>>, bytes |-> <<2, 1>>],
     [text |-> <<121, 113>>, bytes |-> <<5, 0, 2, 1>>],
     [text |-> <<115>>, bytes |-> <<0, 0, 0, 0, 0>>],
     [text |-> <<115>>, bytes |-> <<20, 0, 0, 0, 111, 114, 103, 46, 102, 114, 101, 101,
           100, 101, 115, 107, 116, 111, 112, 46, 68, 66, 117, 115, 0>>],
     [text |-> <<121, 115>>, bytes |-> <<5, 0, 0, 0, 20, 0, 0, 0, 111, 114, 103, 46, 102,
           114, 101, 101, 100, 101, 115, 107, 116, 111, 112, 46, 68, 66, 117, 115, 0>>],
     [text |-> <<116>>, bytes |-> <<8, 7, 6, 5, 4, 3, 2, 1>>],
     [text |-> <<121, 116>>, bytes |-> <<5, 0, 0, 0, 0, 0, 0, 0, 8, 7, 6, 5, 4, 3, 2,
           1>>],
     [text |-> <<117>>, bytes |-> <<4, 3, 2, 1>>],
     [text |-> <<121, 117>>, bytes |-> <<5, 0, 0, 0, 4, 3, 2, 1>>],
     [text |-> <<118>>, bytes |-> <<1, 115, 0, 0, 20, 0, 0, 0, 111, 114, 103, 46, 102,
           114, 101, 101, 100, 101, 115, 107, 116, 111, 112, 46, 68, 66, 117, 115, 0>>],
     [text |-> <<118>>, bytes |-> <<1, 103, 0, 0, 0>>],
     [text |-> <<121, 118>>, bytes |-> <<5, 1, 115, 0, 20, 0, 0, 0, 111, 114, 103, 46,
           102, 114, 101, 101, 100, 101, 115, 107, 116, 111, 112, 46, 68, 66, 117, 115,
           0>>],
     [text |-> <<120>>, bytes |-> <<8, 7, 6, 5, 4, 3, 2, 1>>],
     [text |-> <<121, 120>>, bytes |-> <<5, 0, 0, 0, 0, 0, 0, 0, 8, 7, 6, 5, 4, 3, 2,
           1>>],
     [text |-> <<121>>, bytes |-> <<1>>],
     [text |-> <<121, 121>>, bytes |-> <<5, 1>>],
     [text |-> <<40, 117, 111, 115, 41>>, bytes |-> <<4, 3, 2, 1, 21, 0, 0, 0, 47, 111,
           114, 103, 47, 102, 114, 101, 101, 100, 101, 115, 107, 116, 111, 112, 47, 68,
           66, 117, 115, 0, 0, 0, 20, 0, 0, 0, 111, 114, 103, 46, 102, 114, 101, 101,
           100, 101, 115, 107, 116, 111, 112, 46, 68, 66, 117, 115, 0>>],
     [text |-> <<40, 117, 117, 111, 40, 115, 111, 117, 41, 115, 41>>, bytes |-> <<4, 3,
           2, 1, 8, 7, 6, 5, 21, 0, 0, 0, 47, 111, 114, 103, 47, 102, 114, 101, 101, 100,
           101, 115, 107, 116, 111, 112, 47, 68, 66, 117, 115, 0, 0, 0, 0, 0, 0, 0, 20,
           0, 0, 0, 111, 114, 103, 46, 102, 114, 101, 101, 100, 101, 115, 107, 116, 111,
           112, 46, 68, 66, 117, 115, 0, 0, 0, 0, 21, 0, 0, 0, 47, 111, 114, 103, 47,
           102, 114, 101, 101, 100, 101, 115, 107, 116, 111, 112, 47, 68, 66, 117, 115,
           0, 0, 0, 4, 3, 2, 1, 20, 0, 0, 0, 111, 114, 103, 46, 102, 114, 101, 101, 100,
           101, 115, 107, 116, 111, 112, 46, 68, 66, 117, 115, 0>>],
     [text |-> <<121, 40, 117, 111, 115, 41>>, bytes |-> <<5, 0, 0, 0, 0, 0, 0, 0, 4, 3,
           2, 1, 21, 0, 0, 0, 47, 111, 114, 103, 47, 102, 114, 101, 101, 100, 101, 115,
           107, 116, 111, 112, 47, 68, 66, 117, 115, 0, 0, 0, 20, 0, 0, 0, 111, 114, 103,
           46, 102, 114, 101, 101, 100, 101, 115, 107, 116, 111, 112, 46, 68, 66, 117,
           115, 0>>],
     [text |-> <<117, 111, 115>>, bytes |-> <<4, 3, 2, 1, 21, 0, 0, 0, 47, 111, 114, 103,
           47, 102, 114, 101, 101, 100, 101, 115, 107, 116, 111, 112, 47, 68, 66, 117,
           115, 0, 0, 0, 20, 0, 0, 0, 111, 114, 103, 46, 102, 114, 101, 101, 100, 101,
           115, 107, 116, 111, 112, 46, 68, 66, 117, 115, 0>>],
     [text |-> <<97, 40, 117, 41, 121>>, bytes |-> <<0, 0, 0, 0, 0, 0, 0, 0, 3>>],
     [text |-> <<121, 97, 40, 117, 41, 121>>, bytes |-> <<5, 0, 0, 0, 0, 0, 0, 0, 3>>]}

W1 == <<1, 2>>
W2 == <<3, 4, 5, 6>>
W3 == <<7, 8, 9, 10, 11, 12, 13, 14>>
StrHi == <<104, 105>>

\* values of every constructor but the general Array
PlainVariants ==
   <<VBool(TRUE), VBool(FALSE), VU8(7), VU16(W1), VU32(W2), VU64(W3), VI16(W1), VI32(W2),
     VI64(W3), VF64(W3), VUnixFd(W2), VString(<<>>), VString(StrHi), VObjectPath(StrPath),
     VSignature(SigU8), VSignature(SigArray(SigString)),
     VSignature(SigStruct(<<SigU8, SigArray(SigU32)>>)),
     VSignature(SigArray(SigDictEntry(SigU32, SigString))),
     VSignature(SigTuple(<<>>)), VSignature(SigTuple(<<SigU8, SigU8>>)),
     VSignature(SigTuple(<<SigU8>>)), VSignature(SigArray(SigTuple(<<SigU8, SigU8>>))),
     VSignature(SigStruct(<<>>)), VSignature(LongSignature),
     VArrayBool(<<>>), VArrayBool(<<TRUE, FALSE>>), VArrayF64(<<>>), VArrayF64(<<W3>>),
     VArrayI16(<<>>), VArrayI16(<<W1, W1>>), VArrayI32(<<>>), VArrayI32(<<W2>>),
     VArrayI64(<<>>), VArrayI64(<<W3, W3>>), VArrayString(<<>>),
     VArrayString(<<StrHi, <<>>>>), VArrayU8(<<>>), VArrayU8(<<1, 2, 3>>),
     VArrayU16(<<>>), VArrayU16(<<W1>>), VArrayU32(<<>>), VArrayU32(<<W2, W2>>),
     VArrayU64(<<>>), VArrayU64(<<W3>>), VArrayUnixFd(<<>>), VArrayUnixFd(<<W2>>),
     VStruct(<<VU8(1), VU32(W2)>>), VStruct(<<VStruct(<<VU64(W3)>>), VString(StrHi)>>),
     VStruct(<<>>), VTuple(<<>>), VTuple(<<VU8(1), VString(StrHi)>>),
     VTuple(<<VTuple(<<VU8(1)>>), VU16(W1)>>), VTuple(<<VU8(5), VArrayU64(<<W3>>)>>),
     VDictEntry(VString(StrHi), VVariant(VU32(W2))), VDictEntry(VU8(1), VU64(W3)),
     VVariant(VU8(1)), VVariant(VVariant(VString(StrHi))), VVariant(VArrayU16(<<W1>>)),
     VVariant(VStruct(<<VU8(1), VString(StrHi)>>)), VVariant(VTuple(<<VU8(1)>>)),
     VVariant(VTuple(<<VU8(1), VU16(W1)>>)), VVariant(VTuple(<<>>)),
     VVariant(VStruct(<<>>)), VVariant(VTuple(<<VTuple(<<VU8(1), VU8(2)>>), VU8(3)>>)),
     VVariant(VSignature(SigU8)), VVariant(VSignature(LongSignature))>>

\* values of the general Array constructor, and values holding them
ArrayVariants ==
   <<VArray(SigStruct(<<SigU8>>), <<>>),
     VArray(SigStruct(<<SigU8>>), <<VStruct(<<VU8(1)>>), VStruct(<<VU8(2)>>)>>),
     VArray(SigStruct(<<SigU8, SigU64>>), <<VStruct(<<VU8(1), VU64(W3)>>)>>),
     VArray(SigArray(SigU8), <<VArrayU8(<<1>>), VArrayU8(<<>>)>>),
     VArray(SigArray(SigU64), <<>>),
     VArray(SigArray(SigStruct(<<SigU8>>)),
            <<VArray(SigStruct(<<SigU8>>), <<VStruct(<<VU8(1)>>)>>)>>),
     VArray(SigVariant, <<VVariant(VU8(1)), VVariant(VString(StrHi))>>),
     VArray(SigDictEntry(SigString, SigVariant),
            <<VDictEntry(VString(StrHi), VVariant(VU8(1)))>>),
     VArray(SigDictEntry(SigU16, SigString), <<>>),
     VArray(SigObjectPath, <<VObjectPath(StrPath)>>),
     VArray(SigSignature, <<VSignature(SigU8), VSignature(SigString)>>),
     VArray(SigTuple(<<SigU8, SigU16>>), <<VTuple(<<VU8(1), VU16(W1)>>)>>),
     VArray(SigU8, <<>>), VArray(SigU8, <<VU8(1), VU8(2)>>),
     VArray(SigString, <<VString(StrHi)>>), VArray(SigU64, <<VU64(W3)>>),
     VArray(SigBool, <<VBool(TRUE)>>),
     VArray(SigTuple(<<>>), <<>>), VArray(SigTuple(<<>>), <<VTuple(<<>>), VTuple(<<>>)>>),
     VArray(SigStruct(<<>>), <<VStruct(<<>>)>>),
     VStruct(<<VU8(1), VArray(SigStruct(<<SigU8>>), <<VStruct(<<VU8(1)>>)>>)>>),
     VTuple(<<VU8(1), VArray(SigU32, <<VU32(W2)>>)>>),
     VVariant(VArray(SigStruct(<<SigU8>>), <<VStruct(<<VU8(1)>>)>>)),
     VVariant(VArray(SigU8, <<VU8(1)>>)),
     VVariant(VArray(SigTuple(<<SigU8, SigU16>>), <<VTuple(<<VU8(1), VU16(W1)>>)>>))>>

Variants == PlainVariants \o ArrayVariants

NoValue == [t |-> "none"]

\* a value about to be serialized, or a byte string of the test about to be
\* deserialized with its signature parsed from the text
InitCodec ==
    \/ \E i \in 1..Len(Variants), e \in Endiannesses :
          codec = [phase |-> "value", v |-> Variants[i],
                   signature |-> inner_signature(Variants[i]),
                   e |-> e, serialized |-> <<>>, de |-> NoValue, reserialized |-> <<>>]
    \/ \E t \in TestVectors :
          codec = [phase |-> "serialized", v |-> NoValue,
                   signature |-> from_str(t.text).sig, e |-> "Little",
                   serialized |-> t.bytes, de |-> NoValue, reserialized |-> <<>>]

InitVariant ==
    /\ InitConnection
    /\ write_endianness = "Little"
    /\ connection = "some"
    /\ last_serial = U32(0)
    /\ name = <<>>
    /\ received_messages = <<>>
    /\ call = Idle
    /\ hist = InitHist
    /\ InitCodec

Serialized(r) ==
    codec' = IF r.ok THEN [codec EXCEPT !.phase = "serialized", !.serialized = r.buf]
             ELSE [codec EXCEPT !.phase = "unserializable"]

\* Variant::serialize into an empty buffer
VariantSerialize ==
    /\ codec.phase = "value"
    /\ Serialized(Serialize(codec.v, codec.e))
    /\ UNCHANGED <<sock_in, sock, wire_out, read_buf, read_end, write_buf,
                   write_endianness, connection, last_serial, name, received_messages,
                   call, hist>>

\* Variant::deserialize of the bytes from position 0
VariantDeserialize ==
    /\ codec.phase = "serialized"
    /\ codec' = [codec EXCEPT !.phase = "deserialized",
                              !.de = Deserialize(codec.signature, codec.serialized,
                                                 codec.e)]
    /\ UNCHANGED <<sock_in, sock, wire_out, read_buf, read_end, write_buf,
                   write_endianness, connection, last_serial, name, received_messages,
                   call, hist>>

Reserialized(r) ==
    codec' = IF r.ok THEN [codec EXCEPT !.phase = "reserialized", !.reserialized = r.buf]
             ELSE [codec EXCEPT !.phase = "unreserializable"]

\* Variant::serialize of the deserialized value
VariantReserialize ==
    /\ codec.phase = "deserialized"
    /\ codec.de.ok
    /\ Reserialized(Serialize(codec.de.v, codec.e))
    /\ UNCHANGED <<sock_in, sock, wire_out, read_buf, read_end, write_buf,
                   write_endianness, connection, last_serial, name, received_messages,
                   call, hist>>

NextVariant ==
    \/ VariantSerialize
    \/ VariantDeserialize
    \/ VariantReserialize

SpecVariant == InitVariant /\ [][NextVariant]_vars

(***************************************************************************)
(* Properties of the Variant codec                                         *)
(***************************************************************************)
RECURSIVE ZeroSized(_)
\* a signature whose values are serialized to no bytes at an aligned position
ZeroSized(sig) ==
    CASE sig.t = "Tuple" -> \A i \in 1..Len(sig.elements) : ZeroSized(sig.elements[i])
      [] sig.t = "Struct" -> \A i \in 1..Len(sig.fields) : ZeroSized(sig.fields[i])
      [] sig.t = "DictEntry" -> ZeroSized(sig.key) /\ ZeroSized(sig.value)
      [] OTHER -> FALSE

\* a signature that its text, of at most 255 bytes, is parsed back to
TextStable(sig) ==
    /\ Len(SigToString(sig)) <= U8Limit
    /\ from_str(SigToString(sig)).ok
    /\ SameSignature(from_str(SigToString(sig)).sig, sig)

RECURSIVE Canonical(_)
\* a value in the form Variant::deserialize gives values: the general Array
\* only over element signatures without an Array* constructor of their own,
\* its elements of that signature and not zero-sized, and the signatures
\* written as text (a Signature value, the signature of a Variant's payload)
\* such that the text is parsed back to them
Canonical(v) ==
    CASE v.t = "Array" ->
            /\ SpecialArrayTag(v.v.element_signature) = "Array"
            /\ v.v.elements # <<>> => ~ZeroSized(v.v.element_signature)
            /\ \A i \in 1..Len(v.v.elements) :
                  /\ SameSignature(inner_signature(v.v.elements[i]), v.v.element_signature)
                  /\ Canonical(v.v.elements[i])
      [] v.t = "DictEntry" -> Canonical(v.v.key) /\ Canonical(v.v.value)
      [] v.t \in {"Struct", "Tuple"} -> \A i \in 1..Len(v.v) : Canonical(v.v[i])
      [] v.t = "Signature" -> TextStable(v.v)
      [] v.t = "Variant" -> TextStable(inner_signature(v.v)) /\ Canonical(v.v)
      [] OTHER -> TRUE

\* the value has been serialized and the bytes deserialized
RoundTripped ==
    /\ codec.phase \in {"deserialized", "reserialized", "unreserializable"}
    /\ codec.v.t # "none"

\* C9 as stated: whatever value was serialized, deserializing the bytes with
\* the value's signature gives a Variant equal to the value
C9_EveryVariantRoundTrips ==
    RoundTripped => (codec.de.ok /\ SameVariant(codec.de.v, codec.v))

\* C9 as it holds: a value in canonical form that was serialized is what
\* deserializing the bytes with the value's signature gives, constructor for
\* constructor and bit for bit, and the deserializer ends at the end of the bytes
C9_CanonicalVariantRoundTrips ==
    (RoundTripped /\ Canonical(codec.v))
    => /\ codec.de.ok
       /\ SameVariant(codec.de.v, codec.v)
       /\ codec.de.pos = Len(codec.serialized)

\* a big-endian general Array of structs with a nested Array went round
C9_Witness ==
    /\ RoundTripped
    /\ Canonical(codec.v)
    /\ codec.e = "Big"
    /\ codec.v.t = "Array"
    /\ codec.v.v.elements # <<>>
    /\ codec.v.v.elements[1].t = "Array"
    /\ codec.v.v.elements[1].v.elements # <<>>

RECURSIVE SingleSignature(_)
\* a single complete type: no Tuple in it
SingleSignature(sig) ==
    CASE sig.t = "Tuple" -> FALSE
      [] sig.t = "Array" -> SingleSignature(sig.element)
      [] sig.t = "DictEntry" -> SingleSignature(sig.key) /\ SingleSignature(sig.value)
      [] sig.t = "Struct" -> \A i \in 1..Len(sig.fields) : SingleSignature(sig.fields[i])
      [] OTHER -> TRUE

RECURSIVE Single(_)
\* a well-typed value of a single complete type, its arrays' elements of the
\* element signature and its Variants' payloads single too
Single(v) ==
    CASE v.t = "Tuple" -> FALSE
      [] v.t = "Array" ->
            /\ SingleSignature(v.v.element_signature)
            /\ \A i \in 1..Len(v.v.elements) :
                  /\ SameSignature(inner_signature(v.v.elements[i]), v.v.element_signature)
                  /\ Single(v.v.elements[i])
      [] v.t = "DictEntry" -> Single(v.v.key) /\ Single(v.v.value)
      [] v.t = "Struct" -> \A i \in 1..Len(v.v) : Single(v.v[i])
      [] v.t = "Variant" -> Single(v.v)
      [] OTHER -> TRUE

\* the bytes being deserialized are a well-formed encoding: a byte string of
\* test_variant_serde, or the serialization of a single complete value or of
\* a Tuple of such values
WellFormedEncoding ==
    \/ codec.v.t = "none"
    \/ Single(codec.v)
    \/ codec.v.t = "Tuple" /\ \A i \in 1..Len(codec.v.v) : Single(codec.v.v[i])

\* C10: a well-formed encoding is deserialized with its signature to a value,
\* the deserializer ending at the end of the bytes, and the value is
\* serialized to the same bytes
C10_EncodingRoundTrips ==
    (/\ codec.phase \in {"deserialized", "reserialized", "unreserializable"}
     /\ WellFormedEncoding)
    => /\ codec.de.ok
       /\ codec.de.pos = Len(codec.serialized)
       /\ codec.phase # "unreserializable"
       /\ codec.phase = "reserialized" => codec.reserialized = codec.serialized

\* the bytes of the test for "ya(u)y", an empty array of structs between two
\* bytes, came back from the round
C10_Witness ==
    /\ codec.phase = "reserialized"
    /\ codec.v.t = "none"
    /\ codec.serialized = <<5, 0, 0, 0, 0, 0, 0, 0, 3>>
    /\ codec.reserialized = codec.serialized
    /\ codec.de.v.t = "Tuple"

(***************************************************************************)
(* The message codec on its own: serialize_message writes a header and an  *)
(* optional body into an empty buffer, deserialize_message reads the bytes.*)
(***************************************************************************)
StrOther == <<120>>

\* a header type of each of the four kinds
MsgTypes ==
   <<TError(StrE, U32(5)), TMethodCall(StrM, StrPath), TMethodReturn(U32(5)),
     TSignal(StrI, StrM, StrPath)>>

\* flags bytes: NONE, NO_REPLY_EXPECTED | NO_AUTO_START, and one with unknown bits
MsgFlags == {FlagsNone, 3, 255}

MsgSerials == {U32(0), <<1, 2, 3, 4>>, U32Max}

\* what the caller left in header.body_len: 0 as Client::method_call sets it,
\* or the length of the body of a message the header was used for before
MsgBodyLens == {0, 5}

\* field lists a caller may hand over with a header
MsgFieldLists ==
   <<<<>>,
     <<FDestination(StrBus)>>,
     <<FSender(StrName), FUnixFds(U32(2)), FDestination(StrBus)>>,
     <<FDestination(StrBus), FDestination(StrOther)>>,
     <<FInterface(StrI)>>,
     <<FMember(StrOther), FDestination(StrBus)>>,
     <<FPath(StrBusPath)>>,
     <<FReplySerial(U32(7)), FErrorName(StrOther)>>,
     <<FUnknown(10, VU8(1)), FDestination(StrBus)>>,
     <<FUnknown(0, VStruct(<<VU8(1), VString(StrHi)>>)), FUnknown(255, VArrayU64(<<W3>>))>>,
     <<FUnknown(200, VArray(SigU8, <<VU8(1)>>))>>,
     <<FUnknown(200, VTuple(<<VU8(1)>>))>>,
     <<FUnknown(3, VString(StrOther))>>,
     <<FUnknown(6, VString(StrBus))>>,
     <<FUnknown(1, VU8(1))>>,
     <<FUnknown(9, VSignature(LongSignature))>>>>

\* bodies: none, or a value
MsgBodies ==
   <<<<>>,
     <<VString(StrHi)>>,
     <<VU64(W3)>>,
     <<VTuple(<<VU8(1), VString(StrHi)>>)>>,
     <<VTuple(<<VArrayString(<<StrHi, <<>>>>)>>)>>,
     <<VTuple(<<VU8(1)>>)>>,
     <<VTuple(<<>>)>>,
     <<VStruct(<<>>)>>,
     <<VArrayU8(<<>>)>>,
     <<VStruct(<<VU8(1), VArray(SigStruct(<<SigU8>>), <<VStruct(<<VU8(1)>>)>>)>>)>>,
     <<VArray(SigU8, <<VU8(1), VU8(2)>>)>>,
     <<VVariant(VU32(W2))>>,
     <<VSignature(LongSignature)>>>>

NoMessage == [ok |-> FALSE, err |-> "none"]

InitMsg ==
    /\ InitConnection
    /\ write_endianness = "Little"
    /\ connection = "some"
    /\ last_serial = U32(0)
    /\ name = <<>>
    /\ received_messages = <<>>
    /\ call = Idle
    /\ hist = InitHist
    /\ \E t \in 1..Len(MsgTypes), flags \in MsgFlags, serial \in MsgSerials,
          body_len \in MsgBodyLens,
          f \in 1..Len(MsgFieldLists), b \in 1..Len(MsgBodies), e \in Endiannesses :
          codec = [phase |-> "message",
                   header |-> MessageHeader(MsgTypes[t], flags, body_len, serial,
                                            MsgFieldLists[f]),
                   body |-> MsgBodies[b], e |-> e, written |-> <<>>, de |-> NoMessage]

Written(r) ==
    codec' = IF r.ok THEN [codec EXCEPT !.phase = "written", !.written = r.buf]
             ELSE [codec EXCEPT !.phase = "unwritable", !.written = r.buf]

\* serialize_message into an empty buffer
MessageSerialize ==
    /\ codec.phase = "message"
    /\ Written(serialize_message(codec.header, codec.body, <<>>, codec.e))
    /\ UNCHANGED <<sock_in, sock, wire_out, read_buf, read_end, write_buf,
                   write_endianness, connection, last_serial, name, received_messages,
                   call, hist>>

\* deserialize_message of the bytes written
MessageDeserialize ==
    /\ codec.phase = "written"
    /\ codec' = [codec EXCEPT !.phase = "read",
                              !.de = deserialize_message(codec.written)]
    /\ UNCHANGED <<sock_in, sock, wire_out, read_buf, read_end, write_buf,
                   write_endianness, connection, last_serial, name, received_messages,
                   call, hist>>

NextMsg ==
    \/ MessageSerialize
    \/ MessageDeserialize

SpecMsg == InitMsg /\ [][NextMsg]_vars

(***************************************************************************)
(* Properties of the message codec                                         *)
(***************************************************************************)
\* a field the caller may put in the header of the type: not one of the
\* type's mandatory fields and not SIGNATURE
CallerField(type, field) ==
    /\ field.f # "Signature"
    /\ \A i \in 1..Len(MandatoryFields(type)) : MandatoryFields(type)[i].f # field.f

CallerFields(header) ==
    \A i \in 1..Len(header.fields) : CallerField(header.type, header.fields[i])

\* the same field: the same constructor over the same value
SameField(a, b) ==
    /\ a.f = b.f
    /\ CASE a.f = "Unknown" -> a.code = b.code /\ SameVariant(a.v, b.v)
         [] a.f = "Signature" -> SameSignature(a.v, b.v)
         [] OTHER -> a.v = b.v

SameFields(a, b) ==
    /\ Len(a) = Len(b)
    /\ \A i \in 1..Len(a) : SameField(a[i], b[i])

\* the fields expected back: the caller's, then SIGNATURE iff a body was given
ExpectedFields(header, body) ==
    IF body = <<>> THEN header.fields
    ELSE Append(header.fields, FSignature(inner_signature(body[1])))

SameBody(a, b) ==
    /\ Len(a) = Len(b)
    /\ a # <<>> => SameVariant(a[1], b[1])

\* what C8 promises of the message read back
ReadBack ==
    /\ codec.de.ok
    /\ codec.de.header.type.t = codec.header.type.t
    /\ codec.de.header.type = codec.header.type
    /\ codec.de.header.flags = codec.header.flags
    /\ codec.de.header.serial = codec.header.serial
    /\ SameBody(codec.de.body, codec.body)
    /\ SameFields(codec.de.header.fields, ExpectedFields(codec.header, codec.body))
    /\ codec.de.read = Len(codec.written)

StableField(field) ==
    field.f = "Unknown" =>
        /\ field.code \notin 1..9
        /\ Canonical(VVariant(field.v))

\* a body that is read back: in canonical form, its signature text parsed
\* back to its signature, and serialized to at least one byte
StableBody(body, e) ==
    body # <<>> =>
        /\ Canonical(VVariant(body[1]))
        /\ Serialize(body[1], e).buf # <<>>

WrittenBodyLen == ToLen(FromBytes(codec.e, SubSeq(codec.written, 5, 8)))

WrittenFieldsLen == ToLen(FromBytes(codec.e, SubSeq(codec.written, 13, 16)))

WrittenBodyStart == ((16 + WrittenFieldsLen + 7) \div 8) * 8

\* C12: a message that serialize_message has written says in body_len how
\* many bytes follow the padded header: the bytes of the body when one was
\* given, 0 and no bytes when none was, whatever header.body_len was before
C12_BodyLenIsTheBodyLength ==
    codec.phase \in {"written", "read"}
    => /\ Len(codec.written) = WrittenBodyStart + WrittenBodyLen
       /\ codec.body = <<>> => WrittenBodyLen = 0
       /\ codec.body # <<>> => WrittenBodyLen = Len(Serialize(codec.body[1], codec.e).buf)

\* the part of C12 that holds: with a body, body_len is the body's length
C12_BodyLenWithBody ==
    (codec.phase \in {"written", "read"} /\ codec.body # <<>>)
    => /\ Len(codec.written) = WrittenBodyStart + WrittenBodyLen
       /\ WrittenBodyLen = Len(Serialize(codec.body[1], codec.e).buf)

(***************************************************************************)
(* The Deserializer on bytes of any origin: Variant::deserialize is given  *)
(* a signature and a byte string that need not be an encoding of it.       *)
(***************************************************************************)
\* the signatures a caller may pass: those of the values above
DecodeSignatures == [i \in 1..Len(Variants) |-> inner_signature(Variants[i])]

\* the byte strings: what serializing the values above leaves in the buffer,
\* in both endiannesses, and the byte strings of test_variant_serde
DecodeBytes ==
    {Serialize(Variants[i], e).buf : i \in 1..Len(Variants), e \in Endiannesses}
    \cup {t.bytes : t \in TestVectors}

InitDecode ==
    /\ InitConnection
    /\ write_endianness = "Little"
    /\ connection = "some"
    /\ last_serial = U32(0)
    /\ name = <<>>
    /\ received_messages = <<>>
    /\ call = Idle
    /\ hist = InitHist
    /\ \E i \in 1..Len(DecodeSignatures), bytes \in DecodeBytes, e \in Endiannesses :
          codec = [phase |-> "raw", signature |-> DecodeSignatures[i], e |-> e,
                   bytes |-> bytes, de |-> NoValue]

\* Variant::deserialize of the bytes from position 0 with the signature
Decode ==
    /\ codec.phase = "raw"
    /\ codec' = [codec EXCEPT !.phase = "decoded",
                              !.de = Deserialize(codec.signature, codec.bytes, codec.e)]
    /\ UNCHANGED <<sock_in, sock, wire_out, read_buf, read_end, write_buf,
                   write_endianness, connection, last_serial, name, received_messages,
                   call, hist>>

NextDecode == Decode

SpecDecode == InitDecode /\ [][NextDecode]_vars

(***************************************************************************)
(* Properties of the Deserializer                                          *)
(***************************************************************************)
\* C11: a Variant that Variant::deserialize returns for a signature has that
\* signature as its inner_signature, whatever the bytes were
C11_DeserializedHasTheSignature ==
    (codec.phase = "decoded" /\ codec.de.ok)
    => SameSignature(inner_signature(codec.de.v), codec.signature)

\* an array of u64, returned as ArrayU64 inside a Tuple, was read from bytes
\* written for another value
C11_Witness ==
    /\ codec.phase = "decoded"
    /\ codec.de.ok
    /\ codec.signature.t = "Tuple"
    /\ Len(codec.de.v.v) = 2
    /\ codec.de.v.v[2].t = "ArrayU64"
    /\ codec.de.v.v[2].v # <<W3>>

(***************************************************************************)
(* deserialize_message on bytes of any origin: a header with any fields in *)
(* any order and any body_len, padded to 8 and followed by any bytes.      *)
(***************************************************************************)
\* the header as a peer writes it: the marker, the fixed part and the fields
\* as they are given, padded to 8
Wire(header, e) == SerPadTo(SerHeader(header, SerMarker(<<>>, e), 0, e).buf, 0, 8)

\* the mandatory fields of all four types
WireAll ==
   <<FPath(StrPath), FMember(StrM), FInterface(StrI), FErrorName(StrE), FReplySerial(U32(5))>>

\* the field lists of the headers on the wire
WireFieldLists ==
   <<WireAll,
     <<FDestination(StrBus), FPath(StrPath), FUnknown(10, VU8(1)), FMember(StrM),
       FInterface(StrI), FSender(StrName), FErrorName(StrE), FReplySerial(U32(5)),
       FUnknown(0, VString(StrHi)), FUnixFds(U32(2))>>,
     WireAll \o <<FSignature(SigU32)>>,
     <<FSignature(SigU32)>> \o WireAll \o <<FSignature(SigString)>>,
     WireAll \o <<FSignature(SigStruct(<<SigU8, SigU64>>)), FUnknown(77, VU64(W3))>>,
     <<FMember(StrM), FInterface(StrI), FErrorName(StrE), FReplySerial(U32(5))>>,
     <<FPath(StrPath), FMember(StrM), FInterface(StrI), FErrorName(StrE)>>,
     <<FPath(StrPath), FInterface(StrI), FErrorName(StrE), FReplySerial(U32(5)),
       FSignature(SigU32)>>,
     <<FPath(StrPath), FMember(StrM), FErrorName(StrE), FReplySerial(U32(5))>>,
     <<FPath(StrPath), FMember(StrM), FInterface(StrI), FReplySerial(U32(5))>>,
     <<>>,
     <<FMember(StrM), FPath(StrPath), FMember(StrOther), FInterface(StrI),
       FDestination(StrBus), FErrorName(StrE), FReplySerial(U32(5)),
       FReplySerial(U32(7)), FDestination(StrOther), FInterface(StrOther)>>>>

\* the body_len values of the headers
WireBodyLens == {0, 4, 5, 16}

\* the bytes after the padded header: none, a u32, an empty string, a struct
\* of a byte and a u64 (read the same in both endiannesses)
WireTails ==
   {<<>>, <<7, 7, 7, 7>>, <<0, 0, 0, 0, 0>>,
    <<1, 0, 0, 0, 0, 0, 0, 0, 2, 2, 2, 2, 2, 2, 2, 2>>}

InitWire ==
    /\ InitConnection
    /\ write_endianness = "Little"
    /\ connection = "some"
    /\ last_serial = U32(0)
    /\ name = <<>>
    /\ received_messages = <<>>
    /\ call = Idle
    /\ hist = InitHist
    /\ \E t \in 1..Len(MsgTypes), f \in 1..Len(WireFieldLists),
          body_len \in WireBodyLens, tail \in WireTails, e \in Endiannesses :
          codec = [phase |-> "wire", type |-> MsgTypes[t], fields |-> WireFieldLists[f],
                   body_len |-> body_len, tail |-> tail, e |-> e,
                   bytes |-> Wire(MessageHeader(MsgTypes[t], 3, body_len, U32(9),
                                                WireFieldLists[f]), e) \o tail,
                   de |-> NoMessage]

\* deserialize_message of the bytes
WireDeserialize ==
    /\ codec.phase = "wire"
    /\ codec' = [codec EXCEPT !.phase = "parsed", !.de = deserialize_message(codec.bytes)]
    /\ UNCHANGED <<sock_in, sock, wire_out, read_buf, read_end, write_buf,
                   write_endianness, connection, last_serial, name, received_messages,
                   call, hist>>

NextWire == WireDeserialize

SpecWire == InitWire /\ [][NextWire]_vars

(***************************************************************************)
(* Properties of deserialize_message                                       *)
(***************************************************************************)
\* the header on the wire has a field of the constructor
OnWire(f) == \E i \in 1..Len(codec.fields) : codec.fields[i].f = f

\* the header on the wire has every mandatory field of its type
WireHeaderComplete ==
    \A i \in 1..Len(MandatoryFields(codec.type)) : OnWire(MandatoryFields(codec.type)[i].f)

\* the first SIGNATURE field on the wire
WireSignature ==
    codec.fields[CHOOSE i \in 1..Len(codec.fields) :
                    /\ codec.fields[i].f = "Signature"
                    /\ \A j \in 1..(i - 1) : codec.fields[j].f # "Signature"].v

\* the body_len bytes after the padded header, decoded on their own
WireBody == Deserialize(WireSignature, SubSeq(codec.tail, 1, codec.body_len), codec.e)

\* what holds of the body in both readings of C13: a message is returned
\* with a body iff body_len > 0, and the body is the Variant the first
\* SIGNATURE field decodes from the body_len bytes after the padded header
C13_Body ==
    /\ codec.de.ok => (codec.de.body # <<>> <=> codec.body_len > 0)
    /\ codec.de.ok => codec.de.header.body_len = codec.body_len
    /\ (codec.de.ok /\ codec.body_len > 0)
       => /\ OnWire("Signature")
          /\ WireBody.ok
          /\ SameVariant(codec.de.body[1], WireBody.v)
          /\ codec.de.read = Len(codec.bytes) - Len(codec.tail) + codec.body_len
    /\ (codec.body_len > 0 /\ OnWire("Signature") /\ Len(codec.tail) >= codec.body_len)
       => (codec.de.ok <=> WireBody.ok)

\* C13 as stated: with body_len > 0 and no SIGNATURE field the error is never
\* EndOfInput
C13_NoSignatureIsAHardError ==
    (codec.phase = "parsed" /\ WireHeaderComplete)
    => /\ C13_Body
       /\ (codec.body_len > 0 /\ ~OnWire("Signature"))
          => (~codec.de.ok /\ codec.de.err # "EndOfInput")

\* C13 as it holds: with body_len > 0 and no SIGNATURE field the error is
\* MissingRequiredMessageHeaderField once body_len bytes follow the padded
\* header in the buffer, and EndOfInput, with or without SIGNATURE, before
C13_NoSignatureIsAHardErrorOnceBuffered ==
    (codec.phase = "parsed" /\ WireHeaderComplete)
    => /\ C13_Body
       /\ (codec.body_len > 0 /\ ~OnWire("Signature") /\ Len(codec.tail) >= codec.body_len)
          => (~codec.de.ok /\ codec.de.err = "MissingRequiredMessageHeaderField")
       /\ (codec.body_len > 0 /\ Len(codec.tail) < codec.body_len)
          => (~codec.de.ok /\ codec.de.err = "EndOfInput")

\* a message with two SIGNATURE fields and 16 bytes after the header, 4 of
\* them its body, was returned with the u32 the first SIGNATURE says
C13_Witness ==
    /\ codec.phase = "parsed"
    /\ codec.de.ok
    /\ codec.body_len = 4
    /\ Len(codec.tail) = 16
    /\ codec.de.body # <<>>
    /\ codec.de.body[1].t = "U32"
    /\ Len(SelectSeq(codec.fields, LAMBDA x : x.f = "Signature")) = 2

\* the field is one of the mandatory fields of the type
MandatoryOf(type, field) ==
    \E i \in 1..Len(MandatoryFields(type)) : MandatoryFields(type)[i].f = field.f

\* the value of the last field of the constructor on the wire
LastOnWire(f) ==
    codec.fields[CHOOSE i \in 1..Len(codec.fields) :
                    /\ codec.fields[i].f = f
                    /\ \A j \in (i + 1)..Len(codec.fields) : codec.fields[j].f # f].v

\* the message type with the values of the mandatory fields on the wire
WireType ==
    CASE codec.type.t = "Error" -> TError(LastOnWire("ErrorName"), LastOnWire("ReplySerial"))
      [] codec.type.t = "MethodCall" -> TMethodCall(LastOnWire("Member"), LastOnWire("Path"))
      [] codec.type.t = "MethodReturn" -> TMethodReturn(LastOnWire("ReplySerial"))
      [] codec.type.t = "Signal" ->
            TSignal(LastOnWire("Interface"), LastOnWire("Member"), LastOnWire("Path"))

\* C14: the header read has the type of the type byte with the values of its
\* mandatory fields on the wire, and the other fields, those of unknown codes
\* too, in wire order with their values; a header on the wire without one of
\* the mandatory fields of its type fails with MissingRequiredMessageHeaderField
C14_MandatoryFieldsMoveToTheType ==
    codec.phase = "parsed"
    => /\ ~WireHeaderComplete
          => (~codec.de.ok /\ codec.de.err = "MissingRequiredMessageHeaderField")
       /\ codec.de.ok
          => /\ WireHeaderComplete
             /\ codec.de.header.type.t = codec.type.t
             /\ codec.de.header.type = WireType
             /\ SameFields(codec.de.header.fields,
                           SelectSeq(codec.fields,
                                     LAMBDA field : ~MandatoryOf(codec.type, field)))

\* a SIGNAL whose header has two MEMBER and two INTERFACE fields among ten
\* was read: the type has the later ones, five other fields stay in the list
C14_Witness ==
    /\ codec.phase = "parsed"
    /\ codec.de.ok
    /\ codec.type.t = "Signal"
    /\ Len(codec.fields) = 10
    /\ codec.de.header.type.member = StrOther
    /\ codec.de.header.type.interface = StrOther
    /\ Len(codec.de.header.fields) = 5
    /\ codec.de.header.fields[4].f = "ReplySerial"

(***************************************************************************)
(* SpecArray: an array between other values of a Tuple is serialized and   *)
(* the bytes are deserialized with the Tuple's signature.                  *)
(***************************************************************************)
\* arrays with their elements as Variants, the alignment of the element
\* signature and the number of bytes from the first element to the last
Arrays ==
   <<[array |-> VArray(SigStruct(<<SigU32>>), <<>>), elements |-> <<>>,
      alignment |-> 8, data_len |-> 0],
     [array |-> VArray(SigStruct(<<SigU32>>), <<VStruct(<<VU32(W2)>>)>>),
      elements |-> <<VStruct(<<VU32(W2)>>)>>, alignment |-> 8, data_len |-> 4],
     [array |-> VArray(SigStruct(<<SigU8>>), <<VStruct(<<VU8(1)>>), VStruct(<<VU8(2)>>)>>),
      elements |-> <<VStruct(<<VU8(1)>>), VStruct(<<VU8(2)>>)>>,
      alignment |-> 8, data_len |-> 9],
     [array |-> VArray(SigStruct(<<SigU8, SigU64>>), <<VStruct(<<VU8(1), VU64(W3)>>)>>),
      elements |-> <<VStruct(<<VU8(1), VU64(W3)>>)>>, alignment |-> 8, data_len |-> 16],
     [array |-> VArray(SigDictEntry(SigU16, SigString), <<>>), elements |-> <<>>,
      alignment |-> 8, data_len |-> 0],
     [array |-> VArrayU64(<<>>), elements |-> <<>>, alignment |-> 8, data_len |-> 0],
     [array |-> VArrayU64(<<W3, W3>>), elements |-> <<VU64(W3), VU64(W3)>>,
      alignment |-> 8, data_len |-> 16],
     [array |-> VArrayU32(<<>>), elements |-> <<>>, alignment |-> 4, data_len |-> 0],
     [array |-> VArrayU16(<<W1>>), elements |-> <<VU16(W1)>>,
      alignment |-> 2, data_len |-> 2],
     [array |-> VArrayString(<<StrHi, <<>>>>), elements |-> <<VString(StrHi), VString(<<>>)>>,
      alignment |-> 4, data_len |-> 13],
     [array |-> VArray(SigVariant, <<VVariant(VU8(1))>>), elements |-> <<VVariant(VU8(1))>>,
      alignment |-> 1, data_len |-> 4]>>

\* the values before the array: the length is written at 0, 4, 8 and 12
ArrayBefores == <<<<>>, <<VU8(5)>>, <<VU32(W2), VU8(5)>>, <<VU64(W3), VU32(W2)>>>>

\* the value after the array, with its alignment
ArrayAfters == <<[v |-> VU8(3), alignment |-> 1], [v |-> VU32(W2), alignment |-> 4],
                 [v |-> VU64(W3), alignment |-> 8]>>

\* the Tuple serialized
ArrayTuple == VTuple((codec.before \o <<codec.array>>) \o <<codec.after>>)

\* a Tuple about to be serialized, or the bytes of an empty array of
\* 8-aligned elements whose length, at offset 0 or 8, is followed at once by a u8
InitArray ==
    /\ InitConnection
    /\ write_endianness = "Little"
    /\ connection = "some"
    /\ last_serial = U32(0)
    /\ name = <<>>
    /\ received_messages = <<>>
    /\ call = Idle
    /\ hist = InitHist
    /\ \E i \in 1..Len(Arrays), b \in 1..Len(ArrayBefores), a \in 1..Len(ArrayAfters),
          e \in Endiannesses :
          \/ codec = [phase |-> "value", before |-> ArrayBefores[b],
                      array |-> Arrays[i].array, elements |-> Arrays[i].elements,
                      alignment |-> Arrays[i].alignment, data_len |-> Arrays[i].data_len,
                      after |-> ArrayAfters[a].v, after_alignment |-> ArrayAfters[a].alignment,
                      e |-> e, packed |-> FALSE, written |-> <<>>, de |-> NoValue]
          \/ /\ Arrays[i].alignment = 8 /\ Arrays[i].data_len = 0 /\ b \in {1, 3} /\ a = 1
             /\ codec = [phase |-> "written", before |-> ArrayBefores[b],
                         array |-> Arrays[i].array, elements |-> Arrays[i].elements,
                         alignment |-> Arrays[i].alignment, data_len |-> Arrays[i].data_len,
                         after |-> ArrayAfters[a].v,
                         after_alignment |-> ArrayAfters[a].alignment,
                         e |-> e, packed |-> TRUE,
                         written |-> (IF b = 1 THEN <<>>
                                      ELSE ToBytes(e, W2) \o <<5, 0, 0, 0>>)
                                     \o <<0, 0, 0, 0, 3>>,
                         de |-> NoValue]

\* Variant::serialize of the Tuple into an empty buffer
ArraySerialize ==
    /\ codec.phase = "value"
    /\ Written(Serialize(ArrayTuple, codec.e))
    /\ UNCHANGED <<sock_in, sock, wire_out, read_buf, read_end, write_buf,
                   write_endianness, connection, last_serial, name, received_messages,
                   call, hist>>

\* Variant::deserialize of the bytes with the signature of the Tuple
ArrayDeserialize ==
    /\ codec.phase = "written"
    /\ codec' = [codec EXCEPT !.phase = "read",
                              !.de = Deserialize(inner_signature(ArrayTuple), codec.written,
                                                 codec.e)]
    /\ UNCHANGED <<sock_in, sock, wire_out, read_buf, read_end, write_buf,
                   write_endianness, connection, last_serial, name, received_messages,
                   call, hist>>

NextArray ==
    \/ ArraySerialize
    \/ ArrayDeserialize

SpecArray == InitArray /\ [][NextArray]_vars

(***************************************************************************)
(* Properties of the array encoding                                        *)
(***************************************************************************)
\* the next multiple of the alignment
AlignUp(pos, alignment) == ((pos + alignment - 1) \div alignment) * alignment

\* the offset of the array's length: after the values before it, at a multiple of 4
ArrayLenPos == AlignUp(Len(Serialize(VTuple(codec.before), codec.e).buf), 4)

\* the offset of the first element
ArrayDataStart == AlignUp(ArrayLenPos + 4, codec.alignment)

\* the offset of the value after the array
ArrayAfterPos == AlignUp(ArrayDataStart + codec.data_len, codec.after_alignment)

\* C15: the u32 at the array's offset is the number of bytes from the first
\* element to the end of the last, the bytes between it and the next multiple
\* of the element alignment are zero and not counted, the elements follow,
\* and the value after the array is written after them, for an empty array
\* after the padding; reading the bytes gives the array and the value back,
\* and an empty array without its padding is not read as one
C15_ArrayLengthExcludesPadding ==
    /\ (codec.phase \in {"written", "read"} /\ ~codec.packed)
       => /\ FromBytes(codec.e, SubSeq(codec.written, ArrayLenPos + 1, ArrayLenPos + 4))
             = U32(codec.data_len)
          /\ \A i \in (ArrayLenPos + 5)..ArrayDataStart : codec.written[i] = 0
          /\ SubSeq(codec.written, ArrayDataStart + 1, ArrayDataStart + codec.data_len)
             = Serialize(VTuple(codec.elements), codec.e).buf
          /\ \A i \in (ArrayDataStart + codec.data_len + 1)..ArrayAfterPos :
                codec.written[i] = 0
          /\ SubSeq(codec.written, ArrayAfterPos + 1, Len(codec.written))
             = Serialize(codec.after, codec.e).buf
    /\ (codec.phase = "read" /\ ~codec.packed)
       => /\ codec.de.ok
          /\ codec.de.pos = Len(codec.written)
          /\ SameVariant(codec.de.v, ArrayTuple)
    /\ (codec.phase = "read" /\ codec.packed) => ~codec.de.ok

\* an empty array of 8-aligned elements at offset 0 was written as a zero
\* length and four bytes of padding, a u8 after them, and read back
C15_Witness ==
    /\ codec.phase = "read"
    /\ ~codec.packed
    /\ codec.data_len = 0
    /\ codec.alignment = 8
    /\ ArrayLenPos = 0
    /\ ArrayDataStart = 8
    /\ codec.written = <<0, 0, 0, 0, 0, 0, 0, 0, 3>>
    /\ codec.de.ok
    /\ codec.de.v.v[2].v = 3

(***************************************************************************)
(* SpecSer: a Serializer is created on a buffer that holds bytes already,  *)
(* and a value or a message is serialized after them.                      *)
(***************************************************************************)
\* the bytes in the buffer before the message
SerPrefixes == {<<>>, <<9>>, <<9, 9>>, <<9, 9, 9>>, <<9, 9, 9, 9>>, <<9, 9, 9, 9, 9>>,
                <<9, 9, 9, 9, 9, 9, 9>>, <<9, 9, 9, 9, 9, 9, 9, 9>>}

\* values with one aligned part: the part starts at offset at of the message,
\* its alignment, the offset pad_from where the part before it ends, and the
\* words whose bytes the part starts with
SerCases ==
   <<[v |-> VTuple(<<VU8(1), VU16(W1)>>), pad_from |-> 1, at |-> 2, alignment |-> 2,
      lead |-> <<W1>>],
     [v |-> VTuple(<<VU8(1), VI32(W2)>>), pad_from |-> 1, at |-> 4, alignment |-> 4,
      lead |-> <<W2>>],
     [v |-> VTuple(<<VU8(1), VU64(W3)>>), pad_from |-> 1, at |-> 8, alignment |-> 8,
      lead |-> <<W3>>],
     [v |-> VTuple(<<VU16(W1), VF64(W3)>>), pad_from |-> 2, at |-> 8, alignment |-> 8,
      lead |-> <<W3>>],
     [v |-> VTuple(<<VU8(1), VBool(TRUE)>>), pad_from |-> 1, at |-> 4, alignment |-> 4,
      lead |-> <<U32(1)>>],
     [v |-> VTuple(<<VU8(1), VString(StrHi)>>), pad_from |-> 1, at |-> 4, alignment |-> 4,
      lead |-> <<U32(2)>>],
     [v |-> VTuple(<<VU8(1), VU8(2), VArrayU16(<<W1>>)>>), pad_from |-> 2, at |-> 4,
      alignment |-> 4, lead |-> <<U32(2), W1>>],
     [v |-> VArrayU64(<<W3>>), pad_from |-> 4, at |-> 8, alignment |-> 8,
      lead |-> <<W3>>],
     [v |-> VTuple(<<VU32(W2), VU8(1), VStruct(<<VU32(W2)>>)>>), pad_from |-> 5, at |-> 8,
      alignment |-> 8, lead |-> <<W2>>],
     [v |-> VTuple(<<VU8(1), VDictEntry(VU16(W1), VU16(W1))>>), pad_from |-> 1, at |-> 8,
      alignment |-> 8, lead |-> <<W1, W1>>],
     [v |-> VVariant(VU64(W3)), pad_from |-> 3, at |-> 8, alignment |-> 8,
      lead |-> <<W3>>]>>

\* a METHOD_RETURN with a DESTINATION field: the REPLY_SERIAL field is
\* written second, as a struct, at offset 32 of the message
SerHeaders ==
    {MessageHeader(TMethodReturn(U32(5)), 0, 0, U32(9), <<FDestination(StrOther)>>)}

SerBodies == <<<<>>, <<VU32(W2)>>, <<VTuple(<<VU8(1), VU64(W3)>>)>>>>

InitSer ==
    /\ InitConnection
    /\ write_endianness = "Little"
    /\ connection = "some"
    /\ last_serial = U32(0)
    /\ name = <<>>
    /\ received_messages = <<>>
    /\ call = Idle
    /\ hist = InitHist
    /\ \E prefix \in SerPrefixes, e \in Endiannesses :
          \/ \E i \in 1..Len(SerCases) :
                codec = [phase |-> "value", kind |-> "variant", prefix |-> prefix,
                         v |-> SerCases[i].v, pad_from |-> SerCases[i].pad_from,
                         at |-> SerCases[i].at, alignment |-> SerCases[i].alignment,
                         lead |-> SerCases[i].lead, header |-> NoValue, body |-> <<>>,
                         e |-> e, written |-> <<>>]
          \/ \E header \in SerHeaders, i \in 1..Len(SerBodies) :
                codec = [phase |-> "value", kind |-> "message", prefix |-> prefix,
                         v |-> NoValue, pad_from |-> 26, at |-> 32, alignment |-> 8,
                         lead |-> <<>>, header |-> header, body |-> SerBodies[i],
                         e |-> e, written |-> <<>>]

\* Serializer::new on the buffer, then Variant::serialize
SerializeAfter ==
    /\ codec.phase = "value"
    /\ codec.kind = "variant"
    /\ Written(SerVariant(codec.v, codec.prefix, Len(codec.prefix), codec.e))
    /\ UNCHANGED <<sock_in, sock, wire_out, read_buf, read_end, write_buf,
                   write_endianness, connection, last_serial, name, received_messages,
                   call, hist>>

\* serialize_message into the buffer
MessageSerializeAfter ==
    /\ codec.phase = "value"
    /\ codec.kind = "message"
    /\ Written(serialize_message(codec.header, codec.body, codec.prefix, codec.e))
    /\ UNCHANGED <<sock_in, sock, wire_out, read_buf, read_end, write_buf,
                   write_endianness, connection, last_serial, name, received_messages,
                   call, hist>>

NextSer ==
    \/ SerializeAfter
    \/ MessageSerializeAfter

SpecSer == InitSer /\ [][NextSer]_vars

(***************************************************************************)
(* Properties of the Serializer                                            *)
(***************************************************************************)
RECURSIVE WordBytes(_, _)
\* the bytes of the words in the byte order
WordBytes(e, words) ==
    IF words = <<>> THEN <<>> ELSE ToBytes(e, Head(words)) \o WordBytes(e, Tail(words))

\* the bytes written after those the buffer held
SerMessageBytes == SubSeq(codec.written, Len(codec.prefix) + 1, Len(codec.written))

\* C16: the bytes the buffer held stay, the aligned part starts at its
\* multiple of the alignment counted from the start of the message, every
\* byte between the end of the part before it and its start is 0x00, and the
\* message is byte for byte the one written into an empty buffer
C16_AlignedFromTheMessageStart ==
    codec.phase = "written"
    => /\ SubSeq(codec.written, 1, Len(codec.prefix)) = codec.prefix
       /\ codec.at % codec.alignment = 0
       /\ \A i \in (codec.pad_from + 1)..codec.at : SerMessageBytes[i] = 0
       /\ SubSeq(SerMessageBytes, codec.at + 1,
                 codec.at + Len(WordBytes(codec.e, codec.lead)))
          = WordBytes(codec.e, codec.lead)
       /\ codec.kind = "variant" => SerMessageBytes = Serialize(codec.v, codec.e).buf
       /\ codec.kind = "message"
          => /\ SerMessageBytes[codec.at + 1] = FieldCode(FReplySerial(U32(5)))
             /\ SubSeq(SerMessageBytes, codec.at + 5, codec.at + 8) = ToBytes(codec.e, U32(5))
             /\ Len(SerMessageBytes) % 8 = 0 \/ codec.body # <<>>
             /\ SerMessageBytes
                = serialize_message(codec.header, codec.body, <<>>, codec.e).buf

\* a u64 was written after a u8 into a buffer that held five bytes: seven
\* zero bytes of padding, the u64 at offset 8 of the message, 13 of the buffer
C16_Witness ==
    /\ codec.phase = "written"
    /\ codec.kind = "variant"
    /\ Len(codec.prefix) = 5
    /\ codec.alignment = 8
    /\ codec.pad_from = 1
    /\ Len(codec.written) = 21
    /\ SubSeq(codec.written, 14, 21) = ToBytes(codec.e, W3)

(***************************************************************************)
(* SpecPad: the encoding of a value or a message with one byte of its      *)
(* padding replaced is deserialized.                                       *)
(***************************************************************************)
\* messages with the offsets pad_from <= p < at of padding: between two
\* header fields, between the header and the body, inside the body, and
\* after the header of a message without a body
PadMessages ==
   <<[header |-> MessageHeader(TMethodReturn(U32(5)), 0, 0, U32(9),
                               <<FDestination(StrOther)>>),
      body |-> <<VU32(W2)>>, pad_from |-> 26, at |-> 32],
     [header |-> MessageHeader(TMethodReturn(U32(5)), 0, 0, U32(9),
                               <<FDestination(StrOther)>>),
      body |-> <<VU32(W2)>>, pad_from |-> 47, at |-> 48],
     [header |-> MessageHeader(TMethodReturn(U32(5)), 0, 0, U32(9),
                               <<FDestination(StrOther)>>),
      body |-> <<VTuple(<<VU8(1), VU64(W3)>>)>>, pad_from |-> 49, at |-> 56],
     [header |-> MessageHeader(TMethodCall(StrOther, StrPath), 0, 0, U32(9), <<>>),
      body |-> <<>>, pad_from |-> 42, at |-> 48]>>

\* the byte put in place of a padding byte
PadBytes == {0, 1, 128, 255}

\* the bytes with the byte at offset p replaced
Patched(bytes, p, b) == [i \in 1..Len(bytes) |-> IF i = p + 1 THEN b ELSE bytes[i]]

InitPad ==
    /\ InitConnection
    /\ write_endianness = "Little"
    /\ connection = "some"
    /\ last_serial = U32(0)
    /\ name = <<>>
    /\ received_messages = <<>>
    /\ call = Idle
    /\ hist = InitHist
    /\ \E e \in Endiannesses, b \in PadBytes :
          \/ \E i \in 1..Len(SerCases) :
                \E p \in SerCases[i].pad_from..(SerCases[i].at - 1) :
                   codec = [phase |-> "raw", kind |-> "variant",
                            signature |-> inner_signature(SerCases[i].v),
                            bytes |-> Patched(Serialize(SerCases[i].v, e).buf, p, b),
                            p |-> p, b |-> b, e |-> e, de |-> NoValue]
          \/ \E i \in 1..Len(PadMessages) :
                \E p \in PadMessages[i].pad_from..(PadMessages[i].at - 1) :
                   codec = [phase |-> "raw", kind |-> "message", signature |-> NoValue,
                            bytes |-> Patched(serialize_message(PadMessages[i].header,
                                                                PadMessages[i].body,
                                                                <<>>, e).buf, p, b),
                            p |-> p, b |-> b, e |-> e, de |-> NoValue]

\* Variant::deserialize of the bytes from position 0 with the signature
PadDecode ==
    /\ codec.phase = "raw"
    /\ codec.kind = "variant"
    /\ codec' = [codec EXCEPT !.phase = "decoded",
                              !.de = Deserialize(codec.signature, codec.bytes, codec.e)]
    /\ UNCHANGED <<sock_in, sock, wire_out, read_buf, read_end, write_buf,
                   write_endianness, connection, last_serial, name, received_messages,
                   call, hist>>

\* deserialize_message of the bytes
PadParse ==
    /\ codec.phase = "raw"
    /\ codec.kind = "message"
    /\ codec' = [codec EXCEPT !.phase = "decoded", !.de = deserialize_message(codec.bytes)]
    /\ UNCHANGED <<sock_in, sock, wire_out, read_buf, read_end, write_buf,
                   write_endianness, connection, last_serial, name, received_messages,
                   call, hist>>

NextPad ==
    \/ PadDecode
    \/ PadParse

SpecPad == InitPad /\ [][NextPad]_vars

(***************************************************************************)
(* Properties of the padding check                                         *)
(***************************************************************************)
\* C17: an encoding that is read when its padding is zero fails with
\* NonZeroPadding when one byte of the padding is not zero
C17_NonZeroPaddingIsRejected ==
    codec.phase = "decoded"
    => IF codec.b = 0 THEN codec.de.ok
       ELSE ~codec.de.ok /\ codec.de.err = "NonZeroPadding"

\* a message whose last byte before the body, at offset 47, is 255 was rejected
C17_Witness ==
    /\ codec.phase = "decoded"
    /\ codec.kind = "message"
    /\ codec.p = 47
    /\ codec.b = 255
    /\ Len(codec.bytes) = 52
    /\ ~codec.de.ok
    /\ codec.de.err = "NonZeroPadding"

(***************************************************************************)
(* SpecAuth: Connection::new on a stream whose peer answers the AUTH line  *)
(* with the bytes of sock_in and then stops.  codec holds the inputs and   *)
(* what the call returned.                                                 *)
(***************************************************************************)
CR == 13
LF == 10
StrAuthExternal == <<65, 85, 84, 72, 32, 69, 88, 84, 69, 82, 78, 65, 76, 32>>
StrBegin == <<66, 69, 71, 73, 78, 13, 10>>
StrOk == <<79, 75, 32>>

\* the length of the server GUID Connection::new takes from the reply
GuidLen == 32

RECURSIVE ToDecimal(_)
\* u32::to_string: the decimal digits as characters
ToDecimal(n) == IF n < 10 THEN <<48 + n>> ELSE Append(ToDecimal(n \div 10), 48 + (n % 10))

\* one digit of {:02x}
HexDigit(d) == IF d < 10 THEN 48 + d ELSE 87 + d

RECURSIVE HexOf(_)
\* write!("{:02x}", c as u32) for every character of the uid
HexOf(chars) ==
    IF chars = <<>> THEN <<>>
    ELSE <<HexDigit(Head(chars) \div 16), HexDigit(Head(chars) % 16)>> \o HexOf(Tail(chars))

\* the sasl_auth_id of a SaslAuthType
SaslAuthId(sasl_auth_type) ==
    IF sasl_auth_type.t = "Uid" THEN HexOf(ToDecimal(sasl_auth_type.uid))
    ELSE sasl_auth_type.id

\* what write!(writer, "\0AUTH EXTERNAL {sasl_auth_id}\r\n") writes
AuthLine(sasl_auth_id) == ((<<0>> \o StrAuthExternal) \o sasl_auth_id) \o <<CR, LF>>

\* BufRead::read_until(b'\n'): the bytes up to and with the first LF, or all
\* of them when the peer stops before one
ReadUntilLf(bytes) ==
    IF \E i \in 1..Len(bytes) : bytes[i] = LF
    THEN SubSeq(bytes, 1, CHOOSE i \in 1..Len(bytes) :
                              bytes[i] = LF /\ \A j \in 1..(i - 1) : bytes[j] # LF)
    ELSE bytes

\* slice::starts_with
StartsWith(bytes, prefix) ==
    Len(bytes) >= Len(prefix) /\ SubSeq(bytes, 1, Len(prefix)) = prefix

\* the reply of Connection::new after the AUTH line was written: the line
\* read, then [r, server_guid]; the slice [..32] of a shorter rest panics
AuthReply(line) ==
    IF Len(line) < 2 \/ line[Len(line) - 1] # CR
    THEN [r |-> "Authenticate", server_guid |-> <<>>]
    ELSE IF ~StartsWith(line, StrOk) THEN [r |-> "Authenticate", server_guid |-> <<>>]
    ELSE IF Len(line) - Len(StrOk) < GuidLen THEN [r |-> "Panic", server_guid |-> <<>>]
    ELSE [r |-> "Ok", server_guid |-> SubSeq(line, Len(StrOk) + 1, Len(StrOk) + GuidLen)]

Hexes(n, c) == [i \in 1..n |-> c]

\* 32 hex characters: digits, lower and upper case
MixedGuid == (<<48, 49, 50, 51, 52, 53, 54, 55, 56, 57, 97, 98, 99, 100, 101, 102>>
              \o <<65, 66, 67, 68, 69, 70>>) \o Hexes(10, 57)

\* what the peer writes after the AUTH line
AuthReplies ==
    {(StrOk \o Hexes(32, 97)) \o <<CR, LF>>,
     (StrOk \o MixedGuid) \o <<CR, LF>>,
     ((StrOk \o MixedGuid) \o <<CR, LF>>) \o <<108, 1, 0, 1>>,
     (StrOk \o Hexes(31, 97)) \o <<CR, LF>>,
     (StrOk \o Hexes(30, 97)) \o <<CR, LF>>,
     (StrOk \o Hexes(8, 97)) \o <<CR, LF>>,
     StrOk \o <<CR, LF>>,
     (StrOk \o Hexes(33, 97)) \o <<CR, LF>>,
     (StrOk \o Hexes(64, 97)) \o <<CR, LF>>,
     (StrOk \o Hexes(32, 122)) \o <<CR, LF>>,
     (StrOk \o Hexes(32, 32)) \o <<CR, LF>>,
     (StrOk \o Hexes(32, 97)) \o <<LF>>,
     StrOk \o Hexes(32, 97),
     (StrOk \o Hexes(32, 97)) \o <<CR>>,
     (StrOk \o Hexes(32, 97)) \o <<CR, 120>>,
     (<<111, 107, 32>> \o Hexes(32, 97)) \o <<CR, LF>>,
     (<<79, 75>> \o Hexes(32, 97)) \o <<CR, LF>>,
     <<82, 69, 74, 69, 67, 84, 69, 68, 32, 69, 88, 84, 69, 82, 78, 65, 76, CR, LF>>,
     <<69, 82, 82, 79, 82, CR, LF>>,
     <<CR, LF>>, <<LF>>, <<CR>>, <<>>}

SaslAuthTypes ==
    {[t |-> "Uid", uid |-> 0], [t |-> "Uid", uid |-> 1000], [t |-> "Uid", uid |-> 65534],
     [t |-> "Other", id |-> <<51, 49>>], [t |-> "Other", id |-> <<>>]}

\* the step of Connection::new that fails with an I/O error, if any
AuthFailures == {"none", "connect", "try_clone", "write AUTH", "read", "write BEGIN"}

InitAuth ==
    /\ sock = "open"
    /\ wire_out = <<>>
    /\ read_buf = <<>>
    /\ read_end = 0
    /\ write_buf = <<>>
    /\ write_endianness = "Little"
    /\ connection = "none"
    /\ last_serial = U32(0)
    /\ name = <<>>
    /\ received_messages = <<>>
    /\ call = Idle
    /\ hist = InitHist
    /\ sock_in \in AuthReplies
    /\ \E sasl_auth_type \in SaslAuthTypes, fail \in AuthFailures :
          codec = [phase |-> "new", sasl_auth_type |-> sasl_auth_type, fail |-> fail,
                   reply |-> sock_in, r |-> "none", server_guid |-> <<>>]

\* Connection::new left with the error before anything is read
AuthFailEarly(written) ==
    /\ codec' = [codec EXCEPT !.phase = "returned",
                              !.r = IF codec.fail = "connect" THEN "Connect"
                                    ELSE "Authenticate"]
    /\ wire_out' = written
    /\ UNCHANGED <<sock_in, read_buf, read_end>>

\* Connection::new from the reply on: line is what read_until gave
AuthFinish(line, reply) ==
    /\ sock_in' = SubSeq(sock_in, Len(line) + 1, Len(sock_in))
    /\ IF reply.r = "Ok" /\ codec.fail # "write BEGIN"
       THEN /\ wire_out' = AuthLine(SaslAuthId(codec.sasl_auth_type)) \o StrBegin
            /\ read_buf' = <<0>>
            /\ read_end' = 0
            /\ codec' = [codec EXCEPT !.phase = "returned", !.r = "Ok",
                                      !.server_guid = reply.server_guid]
       ELSE /\ wire_out' = AuthLine(SaslAuthId(codec.sasl_auth_type))
            /\ read_buf' = IF reply.r = "Ok" THEN <<0>> ELSE line
            /\ read_end' = 0
            /\ codec' = [codec EXCEPT !.phase = "returned",
                                      !.r = IF reply.r = "Ok" THEN "Authenticate"
                                            ELSE reply.r]

\* Connection::new(BusPath::UnixSocketFile(..), sasl_auth_type)
ConnectionNew ==
    /\ codec.phase = "new"
    /\ IF codec.fail \in {"connect", "try_clone", "write AUTH"} THEN AuthFailEarly(<<>>)
       ELSE IF codec.fail = "read"
       THEN AuthFailEarly(AuthLine(SaslAuthId(codec.sasl_auth_type)))
       ELSE AuthFinish(ReadUntilLf(sock_in), AuthReply(ReadUntilLf(sock_in)))
    /\ UNCHANGED <<sock, write_buf, write_endianness, connection, last_serial, name,
                   received_messages, call, hist>>

NextAuth == ConnectionNew

SpecAuth == InitAuth /\ [][NextAuth]_vars

(***************************************************************************)
(* Properties of Connection::new                                           *)
(***************************************************************************)
IsHexChar(c) == (c >= 48 /\ c <= 57) \/ (c >= 97 /\ c <= 102) \/ (c >= 65 /\ c <= 70)

\* the peer's reply is one line: OK, a space, exactly 32 hex characters, CR LF
WellFormedOk ==
    /\ Len(ReadUntilLf(codec.reply)) = 37
    /\ StartsWith(codec.reply, StrOk)
    /\ \A i \in 4..35 : IsHexChar(codec.reply[i])
    /\ codec.reply[36] = CR
    /\ codec.reply[37] = LF

\* the bytes written end with BEGIN CR LF
BeginWritten ==
    /\ Len(wire_out) >= Len(StrBegin)
    /\ SubSeq(wire_out, Len(wire_out) - Len(StrBegin) + 1, Len(wire_out)) = StrBegin

\* C18: once the stream is there and the AUTH line written and answered,
\* Connection::new has written the zero byte and the AUTH line first; it
\* returns a Connection, having written BEGIN, when the reply line is OK
\* with exactly 32 hex characters and CR LF and BEGIN can be written, and it
\* returns ConnectError::Authenticate, with no BEGIN written, for every
\* other reply
C18_OnlyAWellFormedOkIsAccepted ==
    (codec.phase = "returned" /\ codec.fail \in {"none", "write BEGIN"})
    => /\ StartsWith(wire_out, AuthLine(SaslAuthId(codec.sasl_auth_type)))
       /\ IF WellFormedOk /\ codec.fail = "none"
          THEN codec.r = "Ok" /\ BeginWritten
          ELSE codec.r = "Authenticate" /\ ~BeginWritten

\* whatever the reply, the zero byte and the AUTH line with the hex of the
\* uid's decimal digits are what is written first, BEGIN is written only
\* after a CR-terminated line that starts with OK and has 32 more bytes,
\* and the GUID kept is those 32 bytes
C18_AuthLineThenBegin ==
    (codec.phase = "returned" /\ codec.fail \in {"none", "read", "write BEGIN"})
    => /\ StartsWith(wire_out, AuthLine(SaslAuthId(codec.sasl_auth_type)))
       /\ codec.sasl_auth_type = [t |-> "Uid", uid |-> 1000]
          => SaslAuthId(codec.sasl_auth_type) = <<51, 49, 51, 48, 51, 48, 51, 48>>
       /\ BeginWritten <=> codec.r = "Ok"
       /\ codec.r = "Ok"
          => /\ StartsWith(codec.reply, StrOk)
             /\ codec.server_guid = SubSeq(codec.reply, 4, 35)
             /\ read_buf = <<0>>
       /\ WellFormedOk /\ codec.fail = "none" => codec.r = "Ok"

(***************************************************************************)
(* SpecConnect: connect(bus_address), one entry of the address list per    *)
(* step.  codec holds the entries left, the paths UnixStream::connect was  *)
(* called with, connect_errs and what the call returned; codec.env says    *)
(* for each socket path whether a bus listens there or how connect fails.  *)
(***************************************************************************)
ChSemicolon == 59
ChComma == 44
ChEquals == 61
ChPercent == 37
StrUnix == <<117, 110, 105, 120, 58>>
StrPathKey == <<112, 97, 116, 104>>
PathA == <<47, 97>>
PathB == <<47, 98>>
PathC == <<47, 99>>

RECURSIVE SplitOn(_, _)
\* slice::split: the pieces between the separators, one piece for no separator
SplitOn(bytes, sep) ==
    IF \E i \in 1..Len(bytes) : bytes[i] = sep
    THEN LET i == CHOOSE i \in 1..Len(bytes) :
                     bytes[i] = sep /\ \A j \in 1..(i - 1) : bytes[j] # sep
         IN  <<SubSeq(bytes, 1, i - 1)>> \o SplitOn(SubSeq(bytes, i + 1, Len(bytes)), sep)
    ELSE <<bytes>>

\* slice::splitn(2, ..): the piece before the first separator and, if there
\* is a separator, all that follows it
SplitN2(bytes, sep) ==
    IF \E i \in 1..Len(bytes) : bytes[i] = sep
    THEN LET i == CHOOSE i \in 1..Len(bytes) :
                     bytes[i] = sep /\ \A j \in 1..(i - 1) : bytes[j] # sep
         IN  <<SubSeq(bytes, 1, i - 1), SubSeq(bytes, i + 1, Len(bytes))>>
    ELSE <<bytes>>

\* the value of a hex digit, 16 for any other byte
HexValue(c) ==
    IF c >= 48 /\ c <= 57 THEN c - 48
    ELSE IF c >= 97 /\ c <= 102 THEN c - 87
    ELSE IF c >= 65 /\ c <= 70 THEN c - 55
    ELSE 16

RECURSIVE PercentDecode(_)
\* percent_encoding::percent_decode: %XX with two hex digits is one byte,
\* every other byte is itself
PercentDecode(bytes) ==
    IF bytes = <<>> THEN <<>>
    ELSE IF /\ bytes[1] = ChPercent
            /\ Len(bytes) >= 3
            /\ HexValue(bytes[2]) < 16
            /\ HexValue(bytes[3]) < 16
    THEN <<HexValue(bytes[2]) * 16 + HexValue(bytes[3])>>
         \o PercentDecode(SubSeq(bytes, 4, Len(bytes)))
    ELSE <<bytes[1]>> \o PercentDecode(Tail(bytes))

RECURSIVE FindPath(_)
\* the find_map over the key=value pairs: <<>> for None, <<<<>>>> for
\* Some(None), <<<<path>>>> for Some(Some(path))
FindPath(pairs) ==
    IF pairs = <<>> THEN <<>>
    ELSE IF PercentDecode(SplitN2(Head(pairs), ChEquals)[1]) = StrPathKey
    THEN IF Len(SplitN2(Head(pairs), ChEquals)) = 2
         THEN <<<<PercentDecode(SplitN2(Head(pairs), ChEquals)[2])>>>>
         ELSE <<<<>>>>
    ELSE FindPath(Tail(pairs))

\* the path of one entry of the address list: <<path>>, or <<>> for an entry
\* that is skipped
EntryPath(entry) ==
    IF Len(entry) < Len(StrUnix) \/ SubSeq(entry, 1, Len(StrUnix)) # StrUnix THEN <<>>
    ELSE LET path == FindPath(SplitOn(SubSeq(entry, Len(StrUnix) + 1, Len(entry)), ChComma))
         IN  IF path = <<>> THEN <<>> ELSE path[1]

\* connect_errs.push((path, err)) with push at the front
PushErrFront(connect_errs, path, err) == <<[path |-> path, err |-> err]>> \o connect_errs

\* connect_errs.push((path, err))
PushErr(connect_errs, path, err) == Append(connect_errs, [path |-> path, err |-> err])

Join(a, b) == (a \o <<ChSemicolon>>) \o b
UnixPath(path) == (StrUnix \o StrPathKey) \o (<<ChEquals>> \o path)

\* address lists, each with the paths of its entries that have one, in order
Addresses ==
   <<[address |-> UnixPath(PathA), paths |-> <<PathA>>],
     [address |-> Join(UnixPath(PathA), UnixPath(PathB)), paths |-> <<PathA, PathB>>],
     [address |-> Join(UnixPath(PathB), Join(UnixPath(PathA), UnixPath(PathC))),
      paths |-> <<PathB, PathA, PathC>>],
     [address |-> Join(UnixPath(PathC), Join(UnixPath(PathB), UnixPath(PathA))),
      paths |-> <<PathC, PathB, PathA>>],
     [address |-> Join(<<116, 99, 112, 58, 104, 111, 115, 116, 61, 120>>, UnixPath(PathA)),
      paths |-> <<PathA>>],
     [address |-> Join(StrUnix \o <<97, 98, 115, 116, 114, 97, 99, 116, 61, 47, 120>>,
                       UnixPath(PathB)),
      paths |-> <<PathB>>],
     [address |-> Join((StrUnix \o <<103, 117, 105, 100, 61, 49, 44>>)
                       \o (StrPathKey \o <<61, 47, 97>>), UnixPath(PathB)),
      paths |-> <<PathA, PathB>>],
     [address |-> Join((StrUnix \o StrPathKey) \o <<61, 37, 50, 102, 97>>,
                       StrUnix \o <<112, 37, 54, 49, 116, 104, 61, 47, 98>>),
      paths |-> <<PathA, PathB>>],
     [address |-> Join(StrUnix \o StrPathKey, UnixPath(PathC)), paths |-> <<PathC>>],
     [address |-> <<>>, paths |-> <<>>],
     [address |-> Join(UnixPath(PathA), Join(<<>>, UnixPath(PathA))),
      paths |-> <<PathA, PathA>>],
     [address |-> (UnixPath(PathA) \o <<ChComma>>) \o (StrPathKey \o <<61, 47, 98>>),
      paths |-> <<PathA>>],
     [address |-> Join(((StrUnix \o StrPathKey) \o <<ChComma>>)
                       \o (StrPathKey \o <<61, 47, 98>>), UnixPath(PathC)),
      paths |-> <<PathC>>],
     [address |-> Join(UnixPath(<<>>), UnixPath(PathB)), paths |-> <<<<>>, PathB>>],
     [address |-> Join(<<120>> \o UnixPath(PathA), UnixPath(PathB)), paths |-> <<PathB>>]>>

\* what UnixStream::connect does for a socket path that is not the empty one
SocketStates == {"listening", "NotFound", "ConnectionRefused"}

\* UnixStream::connect(path) in the environment
UnixConnect(env, path) == IF path = <<>> THEN "InvalidInput" ELSE env[path]

InitConnect ==
    /\ sock_in = <<>>
    /\ sock = "open"
    /\ wire_out = <<>>
    /\ read_buf = <<>>
    /\ read_end = 0
    /\ write_buf = <<>>
    /\ write_endianness = "Little"
    /\ connection = "none"
    /\ last_serial = U32(0)
    /\ name = <<>>
    /\ received_messages = <<>>
    /\ call = Idle
    /\ hist = InitHist
    /\ \E i \in 1..Len(Addresses), env \in [{PathA, PathB, PathC} -> SocketStates] :
          codec = [phase |-> "connecting", env |-> env, paths |-> Addresses[i].paths,
                   entries |-> SplitOn(Addresses[i].address, ChSemicolon),
                   attempts |-> <<>>, connect_errs |-> <<>>, r |-> "none",
                   stream |-> <<>>]

\* an entry that does not start with unix: or has no path with a value: continue
ConnectSkip ==
    /\ codec.phase = "connecting"
    /\ codec.entries # <<>>
    /\ EntryPath(Head(codec.entries)) = <<>>
    /\ codec' = [codec EXCEPT !.entries = Tail(@)]
    /\ UNCHANGED <<sock_in, sock, wire_out, read_buf, read_end, write_buf,
                   write_endianness, connection, last_serial, name, received_messages,
                   call, hist>>

\* what follows UnixStream::connect(path): return Ok(stream), or push the error
ConnectTried(path, outcome) ==
    codec' = IF outcome = "listening"
             THEN [codec EXCEPT !.phase = "returned", !.r = "Ok", !.stream = <<path>>,
                                !.attempts = Append(@, path)]
             ELSE [codec EXCEPT !.entries = Tail(@), !.attempts = Append(@, path),
                                !.connect_errs = PushErr(@, path, outcome)]

\* an entry with a path: UnixStream::connect
ConnectAttempt ==
    /\ codec.phase = "connecting"
    /\ codec.entries # <<>>
    /\ EntryPath(Head(codec.entries)) # <<>>
    /\ ConnectTried(EntryPath(Head(codec.entries))[1],
                    UnixConnect(codec.env, EntryPath(Head(codec.entries))[1]))
    /\ UNCHANGED <<sock_in, sock, wire_out, read_buf, read_end, write_buf,
                   write_endianness, connection, last_serial, name, received_messages,
                   call, hist>>

\* the end of the list: Err(ConnectError::Connect(connect_errs))
ConnectFail ==
    /\ codec.phase = "connecting"
    /\ codec.entries = <<>>
    /\ codec' = [codec EXCEPT !.phase = "returned", !.r = "Connect"]
    /\ UNCHANGED <<sock_in, sock, wire_out, read_buf, read_end, write_buf,
                   write_endianness, connection, last_serial, name, received_messages,
                   call, hist>>

NextConnect ==
    \/ ConnectSkip
    \/ ConnectAttempt
    \/ ConnectFail

SpecConnect == InitConnect /\ [][NextConnect]_vars

(***************************************************************************)
(* Properties of connect                                                   *)
(***************************************************************************)
\* a bus listens at the i-th path of the address list
Listens(i) == codec.paths[i] # <<>> /\ codec.env[codec.paths[i]] = "listening"

\* C19: the paths connect was called with are, in order, the paths of the
\* address list from the left, none after the first that a bus listens at;
\* connect returns the stream of that first path, and when no bus listens
\* at any of them it returns the error with every path and the error of
\* its connect in the order of the list
C19_FirstCandidateThatConnectsWins ==
    /\ Len(codec.attempts) <= Len(codec.paths)
    /\ codec.attempts = SubSeq(codec.paths, 1, Len(codec.attempts))
    /\ \A i \in 1..(Len(codec.attempts) - 1) : ~Listens(i)
    /\ codec.phase = "returned"
       => IF \E i \in 1..Len(codec.paths) : Listens(i)
          THEN /\ codec.r = "Ok"
               /\ Listens(Len(codec.attempts))
               /\ codec.stream = <<codec.paths[Len(codec.attempts)]>>
          ELSE /\ codec.r = "Connect"
               /\ Len(codec.connect_errs) = Len(codec.paths)
               /\ \A i \in 1..Len(codec.paths) :
                     /\ codec.connect_errs[i].path = codec.paths[i]
                     /\ codec.connect_errs[i].err = UnixConnect(codec.env, codec.paths[i])

\* three paths in the list, buses at the second and the third: connect
\* tried the first, returned the stream of the second, never tried the third
C19_Witness ==
    /\ codec.phase = "returned"
    /\ codec.r = "Ok"
    /\ codec.paths = <<PathB, PathA, PathC>>
    /\ codec.env[PathB] = "ConnectionRefused"
    /\ codec.env[PathA] = "listening"
    /\ codec.env[PathC] = "listening"
    /\ codec.attempts = <<PathB, PathA>>
    /\ codec.stream = <<PathA>>
    /\ Len(codec.connect_errs) = 1

(***************************************************************************)
(* SpecSig: a Signature is printed and the text is parsed, or a text is    *)
(* parsed as it comes.  codec holds the value, the text and the parse.     *)
(***************************************************************************)
\* the signatures without an inner type
SigBasics ==
    <<SigBool, SigF64, SigI16, SigI32, SigI64, SigObjectPath, SigSignature, SigString,
      SigU8, SigU16, SigU32, SigU64, SigUnixFd, SigVariant>>

\* every container over the basic types, with no, one and two inner types
SigContainers ==
    [i \in 1..Len(SigBasics) |-> SigArray(SigBasics[i])]
    \o [i \in 1..Len(SigBasics) |-> SigStruct(<<SigBasics[i]>>)]
    \o <<SigStruct(<<>>), SigStruct(<<SigU8, SigString>>), SigStruct(<<SigU8, SigU8, SigU8>>),
         SigDictEntry(SigString, SigVariant), SigDictEntry(SigU8, SigU32),
         SigArray(SigDictEntry(SigString, SigVariant))>>

\* the signatures one level deeper: a container around a container
SigNested ==
    [i \in 1..Len(SigContainers) |-> SigArray(SigContainers[i])]
    \o [i \in 1..Len(SigContainers) |-> SigStruct(<<SigContainers[i]>>)]
    \o [i \in 1..Len(SigContainers) |-> SigStruct(<<SigU8, SigContainers[i], SigString>>)]
    \o [i \in 1..Len(SigContainers) |-> SigDictEntry(SigString, SigContainers[i])]
    \o [i \in 1..Len(SigContainers) |-> SigDictEntry(SigContainers[i], SigU8)]
    \o [i \in 1..Len(SigContainers) |-> SigArray(SigArray(SigStruct(<<SigContainers[i]>>)))]

\* the signatures without a Tuple
SigSingles == SigBasics \o SigContainers \o SigNested

\* the Tuples: none, one and more elements, at the top, inside and nested
SigTuples ==
    <<SigTuple(<<>>), SigTuple(<<SigU8, SigString>>), SigTuple(<<SigU8, SigU8, SigU8>>)>>
    \o [i \in 1..Len(SigContainers) |-> SigTuple(<<SigContainers[i], SigU32>>)]
    \o [i \in 1..Len(SigContainers) |-> SigTuple(<<SigString, SigArray(SigContainers[i])>>)]
    \o [i \in 1..Len(SigBasics) |-> SigTuple(<<SigBasics[i]>>)]
    \o [i \in 1..Len(SigContainers) |-> SigTuple(<<SigContainers[i]>>)]
    \o <<SigTuple(<<SigTuple(<<>>)>>), SigTuple(<<SigTuple(<<SigU8, SigString>>)>>),
         SigTuple(<<SigU8, SigTuple(<<SigU8, SigString>>)>>),
         SigTuple(<<SigTuple(<<SigU8>>), SigTuple(<<SigString>>)>>),
         SigArray(SigTuple(<<>>)), SigArray(SigTuple(<<SigU8>>)),
         SigArray(SigTuple(<<SigU8, SigString>>)),
         SigStruct(<<SigTuple(<<>>)>>), SigStruct(<<SigTuple(<<SigU8>>)>>),
         SigStruct(<<SigTuple(<<SigU8, SigString>>)>>),
         SigDictEntry(SigTuple(<<SigU8>>), SigString),
         SigDictEntry(SigString, SigTuple(<<SigU8, SigString>>))>>

SigValues == SigSingles \o SigTuples

\* texts that come from a peer and are no print of a value above
SigTexts ==
    <<<<ChA>>, <<ChLParen>>, <<ChRParen>>, <<ChLBrace>>, <<ChRBrace>>,
      <<ChLBrace, ChRBrace>>, <<ChLBrace, ChS, ChRBrace>>, <<ChLBrace, ChS, ChY>>,
      <<ChLBrace, ChS, ChY, ChU, ChRBrace>>, <<ChA, ChLBrace, ChS, ChY, ChU, ChRBrace>>,
      <<ChA, ChLBrace, ChS, ChRBrace>>, <<ChA, ChLBrace, ChRBrace>>,
      <<ChLParen, ChY>>, <<ChY, ChRParen>>, <<ChY, 122>>, <<122>>, <<ChA, ChA>>,
      <<ChLBrace, ChS, ChY, ChRBrace, ChLBrace, ChS, ChY, ChRBrace>>,
      <<ChA, ChLBrace, ChS, ChY, ChRBrace, ChLBrace, ChS, ChY, ChRBrace>>,
      <<ChA, ChLBrace, ChS, ChLBrace, ChS, ChY, ChRBrace, ChRBrace>>,
      <<ChA, ChLBrace, ChLBrace, ChS, ChY, ChRBrace, ChS, ChRBrace>>,
      <<ChA, ChLBrace, ChA, ChLBrace, ChS, ChY, ChRBrace, ChS, ChRBrace>>,
      <<ChA, ChLParen, ChLBrace, ChS, ChY, ChRBrace, ChRParen>>,
      <<ChA, ChA, ChLBrace, ChS, ChY, ChRBrace>>,
      <<ChLParen, ChA, ChLBrace, ChS, ChY, ChRBrace, ChRParen>>,
      <<ChA, ChLBrace, ChS, ChA, ChLBrace, ChS, ChY, ChRBrace, ChRBrace>>,
      <<ChA, ChLBrace, ChS, ChLParen, ChLBrace, ChS, ChY, ChRBrace, ChRParen, ChRBrace>>>>

NoParse == [ok |-> FALSE, sig |-> <<>>]

InitSig ==
    /\ InitConnection
    /\ write_endianness = "Little"
    /\ connection = "some"
    /\ last_serial = U32(0)
    /\ name = <<>>
    /\ received_messages = <<>>
    /\ call = Idle
    /\ hist = InitHist
    /\ \/ \E i \in 1..Len(SigValues) :
             codec = [phase |-> "value", sig |-> <<SigValues[i]>>, text |-> <<>>,
                      parsed |-> NoParse]
       \/ \E i \in 1..Len(SigTexts) :
             codec = [phase |-> "text", sig |-> <<>>, text |-> SigTexts[i],
                      parsed |-> NoParse]

\* signature.to_string()
SigDisplay ==
    /\ codec.phase = "value"
    /\ codec' = [codec EXCEPT !.phase = "text", !.text = SigToString(codec.sig[1])]
    /\ UNCHANGED <<sock_in, sock, wire_out, read_buf, read_end, write_buf, write_endianness,
                   connection, last_serial, name, received_messages, call, hist>>

\* what from_str gave, as the codec keeps it
Parsed23(r) == IF r.ok THEN [ok |-> TRUE, sig |-> <<r.sig>>] ELSE NoParse

\* text.parse::<Signature>()
SigParse ==
    /\ codec.phase = "text"
    /\ codec' = [codec EXCEPT !.phase = "parsed", !.parsed = Parsed23(from_str(codec.text))]
    /\ UNCHANGED <<sock_in, sock, wire_out, read_buf, read_end, write_buf, write_endianness,
                   connection, last_serial, name, received_messages, call, hist>>

NextSig ==
    \/ SigDisplay
    \/ SigParse

SpecSig == InitSig /\ [][NextSig]_vars

(***************************************************************************)
(* Properties of the Signature text                                        *)
(***************************************************************************)
\* the signature is a Tuple of no or of two and more single complete types
TopTuple(sig) ==
    /\ sig.t = "Tuple"
    /\ Len(sig.elements) # 1
    /\ \A i \in 1..Len(sig.elements) : SingleSignature(sig.elements[i])

\* C23 as stated: the text of every Signature is parsed back to it
C23_EverySignatureRoundTrips ==
    (codec.phase = "parsed" /\ codec.sig # <<>>)
    => /\ codec.parsed.ok
       /\ SameSignature(codec.parsed.sig[1], codec.sig[1])

\* C23: the text of a Signature that has no Tuple in it, or that is a Tuple
\* of no or of at least two elements none of which has a Tuple in it, is
\* parsed back to an equal Signature
C23_SingleSignatureRoundTrips ==
    (codec.phase = "parsed" /\ codec.sig # <<>>
        /\ (SingleSignature(codec.sig[1]) \/ TopTuple(codec.sig[1])))
    => /\ codec.parsed.ok
       /\ SameSignature(codec.parsed.sig[1], codec.sig[1])

\* a Tuple of a string and an array of arrays of dict entries came back
C23_Witness ==
    /\ codec.phase = "parsed"
    /\ codec.sig = <<SigTuple(<<SigString,
                                SigArray(SigArray(SigDictEntry(SigString, SigVariant)))>>)>>
    /\ codec.text = <<ChS, ChA, ChA, ChLBrace, ChS, ChV, ChRBrace>>
    /\ codec.parsed.ok
    /\ SameSignature(codec.parsed.sig[1], codec.sig[1])

RECURSIVE DictUnderArray(_, _)
\* every DICT_ENTRY of the signature is the element type of an ARRAY;
\* element tells whether sig itself is one
DictUnderArray(sig, element) ==
    CASE sig.t = "Array" -> DictUnderArray(sig.element, TRUE)
      [] sig.t = "DictEntry" ->
            /\ element
            /\ DictUnderArray(sig.key, FALSE)
            /\ DictUnderArray(sig.value, FALSE)
      [] sig.t = "Struct" ->
            \A i \in 1..Len(sig.fields) : DictUnderArray(sig.fields[i], FALSE)
      [] sig.t = "Tuple" ->
            \A i \in 1..Len(sig.elements) : DictUnderArray(sig.elements[i], FALSE)
      [] OTHER -> TRUE

\* C24: every Signature a parse gives has DICT_ENTRY only as the element type
\* of an ARRAY; a text with a DICT_ENTRY anywhere else is rejected
C24_DictEntryOnlyUnderArray ==
    (codec.phase = "parsed" /\ codec.parsed.ok) => DictUnderArray(codec.parsed.sig[1], FALSE)

\* what does hold: a text that is parsed is the print of what the parse gave
C24_ParsedPrintsItsText ==
    (codec.phase = "parsed" /\ codec.parsed.ok) => SigToString(codec.parsed.sig[1]) = codec.text

\* the text "{sy}{sy}" was parsed to a Tuple of two DictEntry
C24_TopLevelDictParsed ==
    /\ codec.phase = "parsed"
    /\ codec.text = <<ChLBrace, ChS, ChY, ChRBrace, ChLBrace, ChS, ChY, ChRBrace>>
    /\ codec.parsed.ok
    /\ codec.parsed.sig[1].t = "Tuple"
    /\ codec.parsed.sig[1].elements[1].t = "DictEntry"

(***************************************************************************)
(* Variant as a serde Deserializer: deserialize_any hands the visitor a    *)
(* scalar, a string, a sequence or a map.  The visitor here is the one of  *)
(* the self-describing Deserialize impls: it takes every element and every *)
(* entry in order and deserializes each with deserialize_any again.        *)
(***************************************************************************)
\* what a visitor was handed: visit_bool, visit_u8 .. visit_f64, visit_str
Visited(k, value) == [ok |-> TRUE, v |-> [k |-> k, v |-> value]]

\* VariantDeserializeError::InvalidValue
InvalidValue == [ok |-> FALSE, err |-> "InvalidValue"]

\* a test of the element signature that never finds a map
IsMapNever(element_signature) == FALSE

\* if let Signature::DictEntry { .. } = element_signature
IsMap(element_signature) == element_signature.t = "DictEntry"

\* the visit_* call of each scalar constructor; UnixFd is visited as its u32
VisitOf(t) ==
    CASE t = "Bool" -> "bool"
      [] t = "F64" -> "f64"
      [] t = "I16" -> "i16"
      [] t = "I32" -> "i32"
      [] t = "I64" -> "i64"
      [] t = "U8" -> "u8"
      [] t = "U16" -> "u16"
      [] t = "U32" -> "u32"
      [] t = "U64" -> "u64"
      [] t = "UnixFd" -> "u32"

\* elements.into_iter().map(Variant::Bool) and the like
Wrapped(tag, elements) ==
    [i \in 1..Len(elements) |-> [t |-> ArrayElementSig(tag).t, v |-> elements[i]]]

RECURSIVE deserialize_any(_)
RECURSIVE VisitSeq(_, _, _)
RECURSIVE VisitMap(_, _, _)

\* impl serde::Deserializer for Variant: deserialize_any
deserialize_any(v) ==
    CASE v.t = "Array" ->
            IF IsMap(v.v.element_signature) THEN VisitMap(v.v.elements, 1, <<>>)
            ELSE VisitSeq(v.v.elements, 1, <<>>)
      [] v.t \in SpecialArrayTags -> VisitSeq(Wrapped(v.t, v.v), 1, <<>>)
      [] v.t = "DictEntry" -> VisitSeq(<<v.v.key, v.v.value>>, 1, <<>>)
      [] v.t = "ObjectPath" -> deserialize_any(VString(v.v))
      [] v.t = "Signature" -> deserialize_any(VString(SigToString(v.v)))
      [] v.t = "String" -> Visited("str", v.v)
      [] v.t \in {"Struct", "Tuple"} -> VisitSeq(v.v, 1, <<>>)
      [] v.t = "Variant" -> deserialize_any(v.v)
      [] OTHER -> Visited(VisitOf(v.t), v.v)

\* visit_seq over SeqAccess: next_element_seed until the iterator ends
VisitSeq(elements, i, acc) ==
    IF i > Len(elements) THEN Visited("seq", acc)
    ELSE LET element == deserialize_any(elements[i]) IN
         IF ~element.ok THEN element
         ELSE VisitSeq(elements, i + 1, Append(acc, element.v))

\* visit_map over MapAccess: next_key_seed, which takes the next entry or
\* the error made for an element that is no DictEntry, then next_value_seed
VisitMap(elements, i, acc) ==
    IF i > Len(elements) THEN Visited("map", acc)
    ELSE IF elements[i].t # "DictEntry" THEN InvalidValue
    ELSE LET key == deserialize_any(elements[i].v.key) IN
         IF ~key.ok THEN key
         ELSE LET value == deserialize_any(elements[i].v.value) IN
              IF ~value.ok THEN value
              ELSE VisitMap(elements, i + 1,
                            Append(acc, [key |-> key.v, value |-> value.v]))

\* the elements the arrays of dict entries are made of: two entries and two
\* values that are none
EntryElements ==
    <<VDictEntry(VString(StrHi), VU32(W2)), VDictEntry(VString(StrPath), VU32(U32(5))),
      VU8(3), VStruct(<<VString(StrHi), VU32(W2)>>)>>

EntrySignature == SigDictEntry(SigString, SigU32)

\* arrays with a DICT_ENTRY element signature of no, one, two and three elements
EntryArrays ==
    <<VArray(EntrySignature, <<>>)>>
    \o [i \in 1..4 |-> VArray(EntrySignature, <<EntryElements[i]>>)]
    \o [n \in 1..16 |->
           VArray(EntrySignature, <<EntryElements[(n - 1) \div 4 + 1],
                                    EntryElements[((n - 1) % 4) + 1]>>)]
    \o [n \in 1..64 |->
           VArray(EntrySignature, <<EntryElements[(n - 1) \div 16 + 1],
                                    EntryElements[(((n - 1) \div 4) % 4) + 1],
                                    EntryElements[((n - 1) % 4) + 1]>>)]
    \o <<VArray(SigDictEntry(SigU8, SigArray(EntrySignature)),
                <<VDictEntry(VU8(1), VArray(EntrySignature, <<EntryElements[1]>>)),
                  VDictEntry(VU8(2), VArray(EntrySignature, <<EntryElements[3]>>))>>),
         VStruct(<<VU8(1), VArray(EntrySignature, <<EntryElements[2], EntryElements[1]>>)>>),
         VVariant(VArray(EntrySignature, <<EntryElements[1], EntryElements[4]>>)),
         VArray(SigStruct(<<SigString, SigU32>>),
                <<VStruct(<<VString(StrHi), VU32(W2)>>),
                  VStruct(<<VString(StrPath), VU32(U32(5))>>)>>)>>

TypedInputs == Variants \o EntryArrays

NoVisit == [ok |-> FALSE, err |-> "none"]

InitTyped ==
    /\ InitConnection
    /\ write_endianness = "Little"
    /\ connection = "some"
    /\ last_serial = U32(0)
    /\ name = <<>>
    /\ received_messages = <<>>
    /\ call = Idle
    /\ hist = InitHist
    /\ \E i \in 1..Len(TypedInputs) :
          codec = [phase |-> "value", v |-> TypedInputs[i], out |-> NoVisit]

\* serde::de::Deserialize::deserialize(variant)
VariantDeserializeAny ==
    /\ codec.phase = "value"
    /\ codec' = [codec EXCEPT !.phase = "decoded", !.out = deserialize_any(codec.v)]
    /\ UNCHANGED <<sock_in, sock, wire_out, read_buf, read_end, write_buf, write_endianness,
                   connection, last_serial, name, received_messages, call, hist>>

NextTyped == VariantDeserializeAny

SpecTyped == InitTyped /\ [][NextTyped]_vars

(***************************************************************************)
(* Properties of the typed decode                                          *)
(***************************************************************************)
RECURSIVE SameData(_, _)
\* two visited values are the same
SameData(a, b) ==
    /\ a.k = b.k
    /\ CASE a.k = "seq" ->
               /\ Len(a.v) = Len(b.v)
               /\ \A i \in 1..Len(a.v) : SameData(a.v[i], b.v[i])
         [] a.k = "map" ->
               /\ Len(a.v) = Len(b.v)
               /\ \A i \in 1..Len(a.v) :
                     /\ SameData(a.v[i].key, b.v[i].key)
                     /\ SameData(a.v[i].value, b.v[i].value)
         [] OTHER -> a.v = b.v

\* the elements a sequence-like value presents, in order
ElementsOf(v) ==
    CASE v.t = "Array" -> v.v.elements
      [] v.t \in SpecialArrayTags -> Wrapped(v.t, v.v)
      [] v.t = "DictEntry" -> <<v.v.key, v.v.value>>
      [] OTHER -> v.v

RECURSIVE Decodable(_)
\* no array with a DICT_ENTRY element signature in the value has an element
\* that is not a DictEntry
Decodable(v) ==
    CASE v.t = "Array" ->
            /\ v.v.element_signature.t = "DictEntry"
                  => \A i \in 1..Len(v.v.elements) : v.v.elements[i].t = "DictEntry"
            /\ \A i \in 1..Len(v.v.elements) : Decodable(v.v.elements[i])
      [] v.t = "DictEntry" -> Decodable(v.v.key) /\ Decodable(v.v.value)
      [] v.t \in {"Struct", "Tuple"} -> \A i \in 1..Len(v.v) : Decodable(v.v[i])
      [] v.t = "Variant" -> Decodable(v.v)
      [] OTHER -> TRUE

\* the value is presented as the claim says, its parts as deserialize_any
\* presents them
PresentedAs(v, out) ==
    CASE v.t = "Array" /\ v.v.element_signature.t = "DictEntry" ->
            /\ out.k = "map"
            /\ Len(out.v) = Len(v.v.elements)
            /\ \A i \in 1..Len(out.v) :
                  /\ SameData(out.v[i].key, deserialize_any(v.v.elements[i].v.key).v)
                  /\ SameData(out.v[i].value, deserialize_any(v.v.elements[i].v.value).v)
      [] v.t = "Array" /\ v.v.element_signature.t # "DictEntry" ->
            /\ out.k = "seq"
            /\ Len(out.v) = Len(v.v.elements)
            /\ \A i \in 1..Len(out.v) : SameData(out.v[i], deserialize_any(v.v.elements[i]).v)
      [] v.t \in SpecialArrayTags \cup {"Struct", "Tuple", "DictEntry"} ->
            /\ out.k = "seq"
            /\ Len(out.v) = Len(ElementsOf(v))
            /\ \A i \in 1..Len(out.v) : SameData(out.v[i], deserialize_any(ElementsOf(v)[i]).v)
      [] v.t \in {"ObjectPath", "String"} -> out.k = "str" /\ out.v = v.v
      [] v.t = "Signature" -> out.k = "str" /\ out.v = SigToString(v.v)
      [] v.t = "Variant" -> SameData(out, deserialize_any(v.v).v)
      [] v.t = "UnixFd" -> out.k = "u32" /\ out.v = v.v
      [] v.t = "Bool" -> out.k = "bool" /\ out.v = v.v
      [] v.t = "F64" -> out.k = "f64" /\ out.v = v.v
      [] v.t = "I16" -> out.k = "i16" /\ out.v = v.v
      [] v.t = "I32" -> out.k = "i32" /\ out.v = v.v
      [] v.t = "I64" -> out.k = "i64" /\ out.v = v.v
      [] v.t = "U8" -> out.k = "u8" /\ out.v = v.v
      [] v.t = "U16" -> out.k = "u16" /\ out.v = v.v
      [] v.t = "U32" -> out.k = "u32" /\ out.v = v.v
      [] v.t = "U64" -> out.k = "u64" /\ out.v = v.v

\* C25: a decode fails exactly when an array with a DICT_ENTRY element
\* signature holds an element that is not a DictEntry; otherwise such an
\* array is visited as a map of the key and value of each element in order,
\* every other array, a Struct, a Tuple and a DictEntry as the sequence of
\* their elements in order, an ObjectPath as its string, a Signature as its
\* text and a scalar as itself
C25_VariantIsPresentedByShape ==
    codec.phase = "decoded"
    => /\ codec.out.ok <=> Decodable(codec.v)
       /\ ~codec.out.ok => codec.out.err = "InvalidValue"
       /\ codec.out.ok => PresentedAs(codec.v, codec.out.v)

\* an array of two dict entries was visited as a map of two entries, the
\* keys strings and the values u32
C25_Witness ==
    /\ codec.phase = "decoded"
    /\ codec.v.t = "Array"
    /\ Len(codec.v.v.elements) = 2
    /\ codec.out.ok
    /\ codec.out.v.k = "map"
    /\ Len(codec.out.v.v) = 2
    /\ codec.out.v.v[1].key.k = "str"
    /\ codec.out.v.v[1].key.v = StrPath
    /\ codec.out.v.v[2].key.v = StrHi
    /\ codec.out.v.v[2].value.k = "u32"
    /\ codec.out.v.v[2].value.v = W2

\* an array whose second element is a Struct and no DictEntry failed
C25_WitnessFailed ==
    /\ codec.phase = "decoded"
    /\ codec.v.t = "Array"
    /\ Len(codec.v.v.elements) = 2
    /\ codec.v.v.elements[1].t = "DictEntry"
    /\ codec.v.v.elements[2].t = "Struct"
    /\ ~codec.out.ok

(***************************************************************************)
(* SpecFrame: Connection::recv against a peer whose frames are complete by *)
(* their own lengths, some of them with contents that do not fit them.     *)
(***************************************************************************)
\* how many frames the peer writes
MaxFrames == 2

\* a METHOD_RETURN with a body, as serialize_message writes it
ReplyFrame(body) ==
    serialize_message(MessageHeader(TMethodReturn(U32(1)), FlagsNone, 0, U32(PeerSerial),
                                    <<>>),
                      body, <<>>, "Little").buf

\* the frames: a u32 body; body_len 2 for the u32; an array of one u32; the
\* array's length 2; the array's length 8 in a body of 8; the field array's
\* length 3; a non-zero byte in the padding before the body; no body
FrameCases ==
    <<ReplyFrame(<<VU32(W2)>>),
      SubSeq(Patched(ReplyFrame(<<VU32(W2)>>), 4, 2), 1, 34),
      ReplyFrame(<<VArrayU32(<<W2>>)>>),
      SubSeq(Patched(Patched(ReplyFrame(<<VArrayU32(<<W2>>)>>), 4, 6), 32, 2), 1, 38),
      Patched(ReplyFrame(<<VArrayU32(<<W2>>)>>), 32, 8),
      Patched(ReplyFrame(<<VU32(W2)>>), 12, 3),
      Patched(ReplyFrame(<<VU32(W2)>>), 31, 1),
      ReplyFrame(<<>>)>>

FramePeerSend ==
    /\ sock = "open"
    /\ Len(hist.sent) < MaxFrames
    /\ \E i \in 1..Len(FrameCases) :
        /\ sock_in' = sock_in \o FrameCases[i]
        /\ hist' = [hist EXCEPT !.sent = Append(@, [k |-> "Frame", s |-> i])]
    /\ UNCHANGED <<sock, wire_out, read_buf, read_end, write_buf, write_endianness,
                   connection, last_serial, name, received_messages, call, codec>>

NextFrame ==
    \/ FramePeerSend
    \/ PeerClose
    \/ LinkBreak
    \/ ConnRecv
    \/ ConnParsed
    \/ ConnRead
    \/ ConnReadFails
    \/ ConnBad

SpecFrame == InitConn /\ [][NextFrame]_vars

\* the buffer holds a whole frame: marker, fixed header, the field array of
\* the declared length, padding to 8 and body_len bytes
FrameComplete(buf) ==
    /\ Len(buf) >= 16
    /\ buf[1] \in {MarkerLittle, MarkerBig}
    /\ LET e == IF buf[1] = MarkerLittle THEN "Little" ELSE "Big"
           body_len == ToLen(FromBytes(e, SubSeq(buf, 5, 8)))
           fields_len == ToLen(FromBytes(e, SubSeq(buf, 13, 16)))
       IN  Len(buf) >= AlignUp(16 + fields_len, 8) + body_len

\* a whole frame is never answered with the request for more bytes
C26_State ==
    (call.op = "conn_recv" /\ FrameComplete(ReadSlice(read_buf, read_end)))
    => ParseError(Parse) # "EndOfInput"

\* with a whole frame in the buffer no step of recv reads the socket, and
\* recv returns the message or a Deserialize error
C26_Step ==
    (call.op = "conn_recv" /\ FrameComplete(ReadSlice(read_buf, read_end)))
    => /\ Len(sock_in') >= Len(sock_in)
       /\ hist'.result # hist.result
          => \/ hist'.result.r = "Ok"
             \/ hist'.result.r = "Err" /\ hist'.result.err = "Deserialize"

\* C26: when the read buffer holds a complete frame, recv returns the message
\* or a Deserialize error without another read of the socket, also for a
\* frame whose body or array is shorter than its signature requires
C26_CompleteFrameNeedsNoRead == []C26_State /\ [][C26_Step]_vars

\* what does hold: recv reads the socket only after EndOfInput, and a parse
\* that fails otherwise ends the call with a Deserialize error
C26_ReadOnlyOnEndOfInput ==
    [][(call.op = "conn_recv" /\ ParseError(Parse) # "EndOfInput")
       => /\ Len(sock_in') >= Len(sock_in)
          /\ hist'.result # hist.result
             => \/ hist'.result.r = "Ok"
                \/ hist'.result.r = "Err" /\ hist'.result.err = "Deserialize"]_vars

\* recv waits with the whole frame whose body_len is 2 in the buffer
C26_WaitsOnAWholeFrame ==
    /\ call.op = "conn_recv"
    /\ hist.sent = <<[k |-> "Frame", s |-> 2]>>
    /\ read_end = 34
    /\ sock_in = <<>>
    /\ FrameComplete(ReadSlice(read_buf, read_end))
    /\ ParseError(Parse) = "EndOfInput"

(***************************************************************************)
(* SpecTerm: Variant::deserialize and deserialize_message on a signature   *)
(* text a peer sent and on bytes of any content.                           *)
(***************************************************************************)
\* signature texts: ay, au, a(y), (), a(), a(()), aa(), a{()()}, a(()y),
\* (a()), ya(), a{y()}, and two the parser rejects, a and a{y}
TermTexts ==
    <<<<ChA, ChY>>, <<ChA, ChU>>, <<ChA, ChLParen, ChY, ChRParen>>, <<ChLParen, ChRParen>>,
      <<ChA, ChLParen, ChRParen>>,
      <<ChA, ChLParen, ChLParen, ChRParen, ChRParen>>,
      <<ChA, ChA, ChLParen, ChRParen>>,
      <<ChA, ChLBrace, ChLParen, ChRParen, ChLParen, ChRParen, ChRBrace>>,
      <<ChA, ChLParen, ChLParen, ChRParen, ChY, ChRParen>>,
      <<ChLParen, ChA, ChLParen, ChRParen, ChRParen>>,
      <<ChY, ChA, ChLParen, ChRParen>>,
      <<ChA, ChLBrace, ChY, ChLParen, ChRParen, ChRBrace>>,
      <<ChA>>, <<ChA, ChLBrace, ChY, ChRBrace>>>>

\* the first words of the byte strings: an array length, or whatever a
\* value starts with
TermWords == <<U32(0), U32(1), U32(4), U32(8), U32(12), U32(16)>>

\* the bytes that follow the first word
TermTails ==
    <<<<>>, Zeros(4), Zeros(8), Zeros(12), Zeros(16), Zeros(4) \o <<1, 0, 0, 0>>,
      <<4, 0, 0, 0>> \o Zeros(8)>>

NoDecode == [ok |-> FALSE, err |-> "none"]

InitTerm ==
    /\ InitConnection
    /\ write_endianness = "Little"
    /\ connection = "some"
    /\ last_serial = U32(0)
    /\ name = <<>>
    /\ received_messages = <<>>
    /\ call = Idle
    /\ hist = InitHist
    /\ \E t \in 1..Len(TermTexts), w \in 1..Len(TermWords), b \in 1..Len(TermTails),
          e \in Endiannesses :
          codec = [phase |-> "raw", text |-> TermTexts[t], e |-> e,
                   bytes |-> ToBytes(e, TermWords[w]) \o TermTails[b],
                   de |-> NoDecode]

\* what a decode gave, without the value
Outcome(r) == IF r.ok THEN [ok |-> TRUE, err |-> "none"] ELSE [ok |-> FALSE, err |-> r.err]

\* text.parse::<Signature>(), then Variant::deserialize with the signature
TermDecode ==
    /\ codec.phase = "raw"
    /\ from_str(codec.text).ok
    /\ codec' = [codec EXCEPT
                   !.phase = "decoded",
                   !.de = Outcome(Deserialize(from_str(codec.text).sig, codec.bytes,
                                              codec.e))]
    /\ UNCHANGED <<sock_in, sock, wire_out, read_buf, read_end, write_buf, write_endianness,
                   connection, last_serial, name, received_messages, call, hist>>

\* the message a peer writes with the text as SIGNATURE and the bytes as body
TermFrame ==
    Wire(MessageHeader(TMethodReturn(U32(5)), FlagsNone, Len(codec.bytes), U32(1),
                       <<FReplySerial(U32(5)), FSignature(from_str(codec.text).sig)>>),
         codec.e) \o codec.bytes

\* deserialize_message of that message
TermMessage ==
    /\ codec.phase = "raw"
    /\ from_str(codec.text).ok
    /\ codec' = [codec EXCEPT !.phase = "message",
                              !.de = Outcome(deserialize_message(TermFrame))]
    /\ UNCHANGED <<sock_in, sock, wire_out, read_buf, read_end, write_buf, write_endianness,
                   connection, last_serial, name, received_messages, call, hist>>

\* the parser rejects the text: nothing is decoded
TermRejected ==
    /\ codec.phase = "raw"
    /\ ~from_str(codec.text).ok
    /\ codec' = [codec EXCEPT !.phase = "rejected"]
    /\ UNCHANGED <<sock_in, sock, wire_out, read_buf, read_end, write_buf, write_endianness,
                   connection, last_serial, name, received_messages, call, hist>>

NextTerm ==
    \/ TermDecode
    \/ TermMessage
    \/ TermRejected

SpecTerm == InitTerm /\ [][NextTerm]_vars

RECURSIVE ZeroSizedElement(_)
\* some array in the signature has an element type that is written as no bytes
ZeroSizedElement(sig) ==
    CASE sig.t = "Array" -> ZeroSized(sig.element) \/ ZeroSizedElement(sig.element)
      [] sig.t = "DictEntry" -> ZeroSizedElement(sig.key) \/ ZeroSizedElement(sig.value)
      [] sig.t = "Struct" -> \E i \in 1..Len(sig.fields) : ZeroSizedElement(sig.fields[i])
      [] sig.t = "Tuple" -> \E i \in 1..Len(sig.elements) : ZeroSizedElement(sig.elements[i])
      [] OTHER -> FALSE

\* C27: Variant::deserialize and deserialize_message end on every buffer and
\* every signature the parser accepts: no array reader parses an element
\* without moving the position short of the end of the array
C27_EveryDecodeTerminates ==
    codec.phase \in {"decoded", "message"} => codec.de.err # "Diverges"

\* what does hold: the decode ends when no array of the signature has an
\* element type that is written as no bytes
C27_SizedElementsTerminate ==
    (codec.phase \in {"decoded", "message"} /\ ~ZeroSizedElement(from_str(codec.text).sig))
    => codec.de.err # "Diverges"

\* the reader of "a()" is given the length 4 and never gets past its first
\* element
C27_EmptyStructArrayDiverges ==
    /\ codec.phase = "decoded"
    /\ codec.text = <<ChA, ChLParen, ChRParen>>
    /\ codec.bytes = <<4, 0, 0, 0, 0, 0, 0, 0, 0, 0, 0, 0>>
    /\ codec.de.err = "Diverges"

(***************************************************************************)
(* SpecSend: a Client after Client::new whose caller sends, with a header  *)
(* built for the call or with the header an earlier send was given, as     *)
(* that send left it.  codec holds the header and the body of the call.    *)
(***************************************************************************)
\* how many sends the caller makes
MaxResends == 2

\* the serials the caller leaves in the header
CallerSerials == {U32(0), U32(7), U32(2), U32Max}

\* the headers the caller builds: no field, or a DESTINATION field
CallerHeaders ==
    {MessageHeader(type, FlagsNone, 0, serial, fields) :
        type \in {TMethodCall(StrM, StrPath), TSignal(StrI, StrM, StrPath),
                  TMethodReturn(U32(PeerSerial)), TError(StrE, U32(PeerSerial))},
        serial \in CallerSerials,
        fields \in {<<>>, <<FDestination(StrBus)>>}}

CallerBodies == <<<<>>, <<VU8(7)>>>>

InitSend ==
    /\ InitConnection
    /\ connection = "some"
    /\ last_serial \in {U32(1), <<254, 255, 255, 255>>}
    /\ name = <<StrName>>
    /\ call = Idle
    /\ received_messages = <<>>
    /\ hist = InitHist
    /\ codec = [phase |-> "constructed", header |-> <<>>, given |-> <<>>, body |-> <<>>,
                reused |-> FALSE, before |-> last_serial]

\* Client::send with a header built for the call
SendFresh ==
    /\ call.op = "idle"
    /\ hist.ops < MaxResends
    /\ \E header \in CallerHeaders, b \in 1..Len(CallerBodies) :
          /\ DoSend(header, CallerBodies[b], "send", TRUE)
          /\ codec' = [phase |-> "sent", header |-> <<header>>, given |-> <<header>>,
                       body |-> CallerBodies[b], reused |-> FALSE, before |-> last_serial]
    /\ UNCHANGED <<sock_in, sock, read_buf, read_end, write_endianness, name>>

\* Client::send with the header of the send before, as that send left it
SendAgain ==
    /\ call.op = "idle"
    /\ hist.ops < MaxResends
    /\ hist.result.op = "send"
    /\ hist.result.header # <<>>
    /\ \E b \in 1..Len(CallerBodies) :
          /\ DoSend(hist.result.header[1], CallerBodies[b], "send", TRUE)
          /\ codec' = [phase |-> "sent", header |-> codec.header, given |-> hist.result.header,
                       body |-> CallerBodies[b], reused |-> TRUE, before |-> last_serial]
    /\ UNCHANGED <<sock_in, sock, read_buf, read_end, write_endianness, name>>

NextSend ==
    \/ SendFresh
    \/ SendAgain
    \/ LinkBreak

SpecSend == InitSend /\ [][NextSend]_vars

(***************************************************************************)
(* Properties of Client::send                                              *)
(***************************************************************************)
\* the message the last send wrote, as deserialize_message reads it
LastWritten == deserialize_message(hist.result.written)

\* how many of the fields have the constructor
CountOf(fields, f) == Cardinality({i \in 1..Len(fields) : fields[i].f = f})

\* the bytes of a SENDER field on the wire: code 7, signature "s", the string
SenderBytes(e, n) == <<7, 1, 115, 0>> \o ToBytes(e, U32(Len(n))) \o n \o <<0>>

\* the bytes occur in the buffer
Contains(buf, bytes) ==
    \E at \in 0..(Len(buf) - Len(bytes)) : SubSeq(buf, at + 1, at + Len(bytes)) = bytes

\* C21: a send that returns Ok returns the serial after the Client's last
\* one, whatever serial the caller left in the header; the header is left
\* with that serial and with a SENDER field of the Client's name pushed after
\* the fields it was given with; and the message written carries that serial
\* at offset 8 and a SENDER field of the name
C21_SendStampsSerialAndSender ==
    (codec.phase = "sent" /\ hist.result.op = "send" /\ hist.result.r = "Ok")
    => /\ hist.result.serial = NextSerial(codec.before)
       /\ hist.result.serial = last_serial
       /\ hist.result.header[1].serial = hist.result.serial
       /\ Len(hist.result.header[1].fields) > Len(codec.given[1].fields)
       /\ SubSeq(hist.result.header[1].fields, 1, Len(codec.given[1].fields))
              = codec.given[1].fields
       /\ hist.result.header[1].fields[Len(codec.given[1].fields) + 1] = FSender(name[1])
       /\ SubSeq(hist.result.written, 9, 12) = ToBytes(write_endianness, hist.result.serial)
       /\ Contains(hist.result.written, SenderBytes(write_endianness, name[1]))
       /\ wire_out # <<>>
       /\ SubSeq(wire_out, Len(wire_out) - Len(hist.result.written) + 1, Len(wire_out))
              = hist.result.written

\* a send whose caller left serial 7 in the header returned the serial 1,
\* the one after u32::max_value()
C21_Witness ==
    /\ codec.phase = "sent"
    /\ ~codec.reused
    /\ hist.result.r = "Ok"
    /\ codec.header[1].serial = U32(7)
    /\ codec.before = U32Max
    /\ hist.result.serial = U32(1)
    /\ LastWritten.ok
    /\ LastWritten.header.serial = U32(1)
    /\ \E i \in 1..Len(LastWritten.header.fields) :
          LastWritten.header.fields[i] = FSender(name[1])

\* the header fields of the message the last send wrote, as they are on the wire
WireFields ==
    DeHeaderFields(hist.result.written, Len(hist.result.written), 12, write_endianness)

\* C28: every message a send wrote has exactly one SENDER field, exactly one
\* field for each property that is mandatory for the type the caller put in
\* the header, with the caller's value, and a SIGNATURE field exactly when
\* the call has a body, also when the header was passed to a send before
C28_OneSenderOneMandatoryEach ==
    (codec.phase = "sent" /\ hist.result.op = "send" /\ hist.result.r = "Ok")
    => /\ WireFields.ok
       /\ CountOf(WireFields.v, "Sender") = 1
       /\ \A m \in 1..Len(MandatoryFields(codec.header[1].type)) :
             LET mandatory == MandatoryFields(codec.header[1].type)[m]
             IN  /\ CountOf(WireFields.v, mandatory.f) = 1
                 /\ \A i \in 1..Len(WireFields.v) :
                       WireFields.v[i].f = mandatory.f => WireFields.v[i].v = mandatory.v
       /\ CountOf(WireFields.v, "Signature") = (IF codec.body = <<>> THEN 0 ELSE 1)

\* the same for the sends whose header was built for the call
C28_FreshHeaders ==
    ~codec.reused => C28_OneSenderOneMandatoryEach

\* a header was passed to a second send, which wrote a message
C28_ReusedSent ==
    /\ codec.phase = "sent"
    /\ codec.reused
    /\ hist.result.r = "Ok"
    /\ WireFields.ok
    /\ CountOf(WireFields.v, "Sender") = 2

(***************************************************************************)
(* Properties of the Client                                                *)
(***************************************************************************)
\* the arrival numbers of the messages handed to the caller so far
DeliveredIds == {hist.delivered[i].id : i \in 1..Len(hist.delivered)}

HeldIds == {received_messages[i].id : i \in 1..Len(received_messages)}

\* C1: method_call (also the one inside Client::new) returns a result only
\* for a METHOD_RETURN or ERROR the peer sent with reply_serial equal to the
\* serial send gave the request, the last one issued: Ok(body) for the
\* METHOD_RETURN, MethodCallError::Error(name, body) for the ERROR; no signal
\* and no reply to another serial ends it
C1_MethodCallReturnsItsReply ==
    (/\ hist.result.op \in {"method_call", "new"}
     /\ (hist.result.r = "Ok" \/ hist.result.err = "Error"))
    => /\ hist.result.id \in 1..Len(hist.got)
       /\ hist.result.serial = hist.issued[Len(hist.issued)]
       /\ hist.sent[hist.result.id].k \in {"Ret", "Err"}
       /\ U32(hist.sent[hist.result.id].s) = hist.result.serial
       /\ hist.got[hist.result.id].header.type.t \in {"MethodReturn", "Error"}
       /\ hist.got[hist.result.id].header.type.reply_serial = hist.result.serial
       /\ hist.result.body = hist.got[hist.result.id].body
       /\ (hist.sent[hist.result.id].k = "Ret")
            => /\ hist.result.r = "Ok"
               /\ hist.result.body = <<VString(PeerName(hist.sent[hist.result.id].s))>>
       /\ (hist.sent[hist.result.id].k = "Err")
            => (hist.result.r = "Err" /\ hist.result.err = "Error"
                /\ hist.result.name = StrE)

\* a method_call returned while a signal or a reply to another serial that
\* arrived before its reply is held
C1_Witness ==
    /\ hist.result.op = "method_call"
    /\ hist.result.r = "Ok"
    /\ ~hist.result.held
    /\ received_messages # <<>>

\* C2: every message read from the connection is either delivered or held,
\* never both and never twice, also once the connection has failed; the held
\* queue is in arrival order; and each recv hands over the earliest arrived
\* message not yet delivered
C2_HeldMessagesKeptInOrder ==
    /\ \A i, j \in 1..Len(hist.delivered) :
          i # j => hist.delivered[i].id # hist.delivered[j].id
    /\ \A i \in 1..(Len(received_messages) - 1) :
          received_messages[i].id < received_messages[i + 1].id
    /\ DeliveredIds \cap HeldIds = {}
    /\ DeliveredIds \cup HeldIds = 1..Len(hist.got)
    /\ \A i \in 1..Len(received_messages) :
          /\ received_messages[i].header = hist.got[received_messages[i].id].header
          /\ received_messages[i].body = hist.got[received_messages[i].id].body
    /\ \A i \in 1..Len(hist.delivered) :
          hist.delivered[i].by = "recv"
          => \A id \in 1..(hist.delivered[i].id - 1) :
                \E j \in 1..(i - 1) : hist.delivered[j].id = id
    /\ (hist.result.r = "Ok" /\ hist.result.op \in {"recv", "recv_matching"})
          => hist.result.body = hist.got[hist.result.id].body

\* recv hands over a held message after a receive has failed and the
\* connection is gone
C2_Witness ==
    /\ hist.failed
    /\ connection = "none"
    /\ hist.result.op = "recv"
    /\ hist.result.r = "Ok"
    /\ hist.result.held
    /\ \E i \in 1..Len(hist.delivered) : hist.delivered[i].id > hist.result.id

\* in every state: the message recv_matching(P) returns satisfies P and no message that
\* arrived before it and is still undelivered satisfies P; one taken from the
\* held queue is taken without a read of the connection, and one read from
\* the connection is the last that arrived, those read before it being held
C3_State ==
    (hist.result.op = "recv_matching" /\ hist.result.r = "Ok")
    => /\ Matches(hist.result.pred, hist.got[hist.result.id].header)
       /\ \A id \in 1..(hist.result.id - 1) :
             Matches(hist.result.pred, hist.got[id].header) => id \in DeliveredIds
       /\ ~hist.result.held
             => /\ hist.result.id = Len(hist.got)
                /\ \A id \in 1..(hist.result.id - 1) : id \in DeliveredIds \cup HeldIds

C3_Step ==
    (/\ hist'.result # hist.result
     /\ hist'.result.op = "recv_matching"
     /\ hist'.result.held)
    => /\ UNCHANGED <<sock_in, read_buf, read_end>>
       /\ hist'.got = hist.got
       /\ hist'.result.id = received_messages[FirstMatch(hist'.result.pred,
                                                         received_messages)].id

\* C3: recv_matching(P) returns the earliest message not yet delivered that
\* satisfies P: a held one is removed from the queue without a read of the
\* connection, otherwise messages are read and held until one satisfies P
C3_RecvMatchingEarliestMatch == []C3_State /\ [][C3_Step]_vars

\* m1 (a reply to another serial) then m2 (a signal) arrive after the reply
\* to Hello: recv_matching for signals returned m2 and the next recv m1
C3_Witness ==
    hist.delivered = <<[id |-> 1, by |-> "new"], [id |-> 3, by |-> "recv_matching"],
                       [id |-> 2, by |-> "recv"]>>

\* C5: a send that failed with a Serialize error wrote no byte of the message
\* to the socket, left nothing of it in the write buffer for a later send to
\* write, and left the connection in place
C5_SerializeFailureRecoverable ==
    (hist.result.op = "send" /\ hist.result.err = "Serialize")
    => /\ hist.result.written = <<>>
       /\ write_buf = <<>>
       /\ connection = "some"

\* in every step: once a receive has failed with Io or Deserialize or a send with Io,
\* the connection is gone for good; no step writes to the socket, takes bytes
\* from it, touches the read buffer, parses a message or allocates a serial;
\* every operation that ends does so with Poisoned, but for recv and
\* recv_matching handing over a message held from before
C6_Step ==
    hist.failed
    => /\ connection = "none"
       /\ connection' = "none"
       /\ wire_out' = wire_out
       /\ Len(sock_in') >= Len(sock_in)
       /\ SubSeq(sock_in', 1, Len(sock_in)) = sock_in
       /\ UNCHANGED <<read_buf, read_end, last_serial>>
       /\ hist'.got = hist.got
       /\ hist'.issued = hist.issued
       /\ hist'.result # hist.result
            => \/ /\ hist'.result.r = "pending"
                  /\ hist'.result.op \in {"recv", "recv_matching"}
               \/ /\ hist'.result.r = "Err"
                  /\ hist'.result.err = "Poisoned"
                  /\ hist'.result.written = <<>>
               \/ /\ hist'.result.r = "Ok"
                  /\ hist'.result.op \in {"recv", "recv_matching"}
                  /\ hist'.result.held

\* C6: after a receive failed with Io or Deserialize, or a send with Io, every
\* step leaves the connection taken, the socket and the read buffer alone and
\* the serial unchanged; operations end with Poisoned or hand over a held message
C6_FailedConnectionIsTerminal == [][C6_Step]_vars

\* a send returned Poisoned after the receive before it had failed
C6_Witness ==
    /\ hist.failed
    /\ hist.ops = MaxOps
    /\ hist.result.op = "send"
    /\ hist.result.err = "Poisoned"

\* the first message among the bytes written, as deserialize_message reads it
FirstWritten == deserialize_message(wire_out)

\* the bytes written start with the Hello call: a METHOD_CALL with serial 1,
\* member Hello, the path, destination and interface of the bus, no body,
\* no other field
HelloWritten ==
    /\ FirstWritten.ok
    /\ FirstWritten.header.type = TMethodCall(StrHello, StrBusPath)
    /\ FirstWritten.header.serial = U32(1)
    /\ FirstWritten.header.body_len = 0
    /\ FirstWritten.body = <<>>
    /\ Len(FirstWritten.header.fields) = 2
    /\ \E i, j \in 1..2 :
          /\ FirstWritten.header.fields[i].f = "Destination"
          /\ FirstWritten.header.fields[i].v = StrBus
          /\ FirstWritten.header.fields[j].f = "Interface"
          /\ FirstWritten.header.fields[j].v = StrBus

\* the bytes written are the Hello call and nothing else
OnlyHelloWritten == HelloWritten /\ FirstWritten.read = Len(wire_out)

\* the name is the string of the body of the METHOD_RETURN to serial 1 that
\* Client::new was handed, the one the peer sent
NameIsFromHelloReply ==
    /\ Len(name) = 1
    /\ \E i \in 1..Len(hist.delivered) :
          /\ hist.delivered[i].by = "new"
          /\ hist.got[hist.delivered[i].id].header.type = TMethodReturn(U32(1))
          /\ hist.got[hist.delivered[i].id].body = <<VString(name[1])>>
          /\ hist.sent[hist.delivered[i].id].k = "Ret"
          /\ hist.sent[hist.delivered[i].id].s = 1
          /\ name[1] = PeerName(1)

\* in every state: before Client::new nothing is written; while it waits
\* for the reply and when it has failed, the Hello call is all that was
\* written (nothing at all when the write failed) and there is no name;
\* once it has returned Ok the name is the string of the Hello reply, and
\* before the caller's first operation the Hello call is still all that was written
C20_State ==
    /\ call.op = "start" => (wire_out = <<>> /\ name = <<>>)
    /\ call.op = "new" => (OnlyHelloWritten /\ name = <<>>)
    /\ call.op = "failed" => ((wire_out = <<>> \/ OnlyHelloWritten) /\ name = <<>>)
    /\ (call.op = "idle" /\ hist.ops = 0) => OnlyHelloWritten
    /\ call.op \notin {"start", "new", "failed"} => NameIsFromHelloReply

\* in every step: a name once stored stays, the name changes only in the
\* step in which Client::new returns Ok, and what was written stays written
C20_Step ==
    /\ name # <<>> => name' = name
    /\ name' # name => (call.op = "new" /\ call'.op = "idle")
    /\ Len(wire_out') >= Len(wire_out)
    /\ SubSeq(wire_out', 1, Len(wire_out)) = wire_out

\* C20: Client::new writes the Hello METHOD_CALL (destination, path,
\* interface of the bus, member Hello, no body) and nothing else, and waits
\* for its reply; when it returns Ok the name is the string in the body of
\* the METHOD_RETURN to the Hello call; no later step of send, recv,
\* recv_matching or method_call, failing or not, changes or clears the name
C20_HelloNameIsKept == []C20_State /\ [][C20_Step]_vars

\* the peer sent a reply to serial 2 with another string before the reply to
\* Hello; the Client has the name of the Hello reply, and still has it after
\* its connection failed and a later operation returned Poisoned
C20_Witness ==
    /\ name = <<PeerName(1)>>
    /\ hist.sent[1] = [k |-> "Ret", s |-> 2]
    /\ hist.failed
    /\ connection = "none"
    /\ hist.ops = MaxOps
    /\ hist.result.err = "Poisoned"


\* the step begins a call of the operation
Begins(op) ==
    /\ call.op = "idle"
    /\ hist'.ops = hist.ops + 1
    /\ hist'.result.op = op

\* the step reads bytes from the socket
SocketRead == sock_in' # sock_in /\ Len(sock_in') < Len(sock_in)

\* recv is only ever waiting in recv_new with an empty held queue
C22_State ==
    call.op = "recv" => received_messages = <<>>

\* what each step does to the held queue
C22_Step ==
    /\ Len(received_messages') > Len(received_messages)
       => /\ call.op \in {"recv_matching", "method_call", "new"}
          /\ call' = call
          /\ Len(hist'.got) = Len(hist.got) + 1
          /\ Len(received_messages') = Len(received_messages) + 1
          /\ SubSeq(received_messages', 1, Len(received_messages)) = received_messages
          /\ received_messages'[Len(received_messages')].id = Len(hist'.got)
          /\ ~Matches(call.pred, received_messages'[Len(received_messages')].header)
    /\ Begins("send") => received_messages' = received_messages
    /\ (call.op = "recv" \/ Begins("recv"))
       => Len(received_messages') <= Len(received_messages)
    /\ (Begins("recv") /\ received_messages # <<>>)
       => /\ received_messages' = Tail(received_messages)
          /\ call' = Idle
          /\ hist'.result.r = "Ok"
          /\ hist'.result.held
          /\ hist'.result.id = Head(received_messages).id
          /\ hist'.result.body = Head(received_messages).body
          /\ ~SocketRead
          /\ UNCHANGED <<read_buf, read_end, connection>>
          /\ hist'.got = hist.got
    /\ (Begins("recv") /\ received_messages = <<>>)
       => /\ call'.op = "recv"
          /\ hist'.result.r = "pending"
          /\ ~SocketRead
    /\ (call.op = "recv" /\ call'.op = "idle" /\ hist'.result.r = "Ok")
       => /\ ~hist'.result.held
          /\ Len(hist'.got) = Len(hist.got) + 1
          /\ hist'.result.id = Len(hist'.got)
          /\ received_messages' = <<>>
    /\ (call.op = "recv" /\ call'.op = "recv") => hist'.got = hist.got

\* C22: the held queue grows only by a message recv_new gave to a waiting
\* recv_matching or method_call and that the predicate refused; send leaves
\* the queue alone and recv never lengthens it; recv on a non-empty queue
\* removes the head, returns it and reads nothing; recv on an empty queue
\* waits in recv_new and returns the one message it parses
C22_QueueGrowsOnlyWhileMatching == []C22_State /\ [][C22_Step]_vars

\* recv returned the head of a queue of two held messages
C22_Witness ==
    /\ hist.result.op = "recv"
    /\ hist.result.r = "Ok"
    /\ hist.result.held
    /\ Len(received_messages) = 1
    /\ received_messages[1].id > hist.result.id
    /\ call.op = "idle"

(***************************************************************************)
(* SpecLive: the Client whose caller makes method calls and whose thread   *)
(* keeps running: a call that is inside recv_new takes its next step, it   *)
(* parses what is buffered, reads when the socket has bytes, and sees the  *)
(* end of the stream or the failure of the link.  The peer and the caller  *)
(* are under no obligation.                                                *)
(***************************************************************************)
\* the frames of the peer, in some order
LiveKinds ==
    <<[k |-> "Ret", s |-> 1], [k |-> "Ret", s |-> 2], [k |-> "Err", s |-> 2],
      [k |-> "Sig", s |-> 0], [k |-> "Bad", s |-> 0]>>

\* a whole frame of the peer: its length and what deserialize_message makes
\* of it
WholeFrame(kind, bytes) ==
    [kind |-> kind, len |-> Len(bytes), parse |-> deserialize_message(bytes)]

WholeFrames == [i \in 1..Len(LiveKinds) |-> WholeFrame(LiveKinds[i], PeerFrame(LiveKinds[i]))]

\* what deserialize_message makes of `end` buffered bytes that begin with
\* the frame: the message once the frame is whole, EndOfInput before, the
\* frame's error when it is no message
FrameParseOf(frame, end) ==
    IF frame.parse.ok
    THEN IF end >= frame.len THEN frame.parse ELSE [ok |-> FALSE, err |-> "EndOfInput"]
    ELSE frame.parse

\* the same of the buffered bytes, which begin with frame number `next` of
\* those the peer wrote
FrameParse(frames, sent, next, end) ==
    IF end = 0 \/ next > Len(sent) THEN [ok |-> FALSE, err |-> "EndOfInput"]
    ELSE FrameParseOf(frames[CHOOSE i \in 1..Len(frames) : frames[i].kind = sent[next]],
                      end)

\* the parse of the buffered bytes, kept beside the buffer
InitLive ==
    /\ InitConnection
    /\ connection = "some"
    /\ last_serial = U32(0)
    /\ name = <<>>
    /\ received_messages = <<>>
    /\ call = [op |-> "start", pred |-> [k |-> "Any"]]
    /\ hist = InitHist
    /\ codec = [phase |-> "live", parse |-> Parse, frames |-> WholeFrames]

LiveParsed ==
    /\ RecvParsedOn(codec.parse)
    /\ codec' = [codec EXCEPT !.parse = FrameParse(codec.frames, hist'.sent,
                                                   Len(hist'.got) + 1, read_end')]

LiveRead ==
    /\ RecvReadOn(codec.parse)
    /\ codec' = [codec EXCEPT !.parse = FrameParse(codec.frames, hist'.sent,
                                                   Len(hist'.got) + 1, read_end')]

LiveEof == RecvEofOn(codec.parse) /\ UNCHANGED codec

LiveIoError == RecvIoErrorOn(codec.parse) /\ UNCHANGED codec

LiveBad == RecvBadOn(codec.parse) /\ UNCHANGED codec

\* one turn of the loop of recv_new
RecvStep ==
    \/ LiveParsed
    \/ LiveRead
    \/ LiveEof
    \/ LiveIoError
    \/ LiveBad

NextLive ==
    \/ PeerSend
    \/ PeerClose
    \/ LinkBreak
    \/ ClientNew
    \/ MethodCall
    \/ LiveParsed
    \/ LiveRead
    \/ LiveEof
    \/ LiveIoError
    \/ LiveBad

SpecLive == InitLive /\ [][NextLive]_vars /\ WF_vars(RecvStep)

\* the parse kept is the parse of the buffer
LiveParseIsParse ==
    /\ ParseError(codec.parse) = ParseError(Parse)
    /\ codec.parse.ok => /\ codec.parse.read = Parse.read
                         /\ codec.parse.header = Parse.header
                         /\ codec.parse.body = Parse.body

\* method_call, or the Hello call of Client::new, waits for its reply
InMethodCall == call.op \in {"new", "method_call"}

\* the peer has written a reply to the request's serial that is not yet
\* parsed, and every frame before it that is not yet parsed is well-formed
ReplyDelivered ==
    \E j \in (Len(hist.got) + 1)..Len(hist.sent) :
        /\ hist.sent[j].k \in {"Ret", "Err"}
        /\ U32(hist.sent[j].s) = call.pred.serial
        /\ \A i \in (Len(hist.got) + 1)..j : hist.sent[i].k # "Bad"

\* method_call has returned an error that is not the peer's ERROR reply
ReturnedError ==
    /\ ~InMethodCall
    /\ hist.result.op \in {"new", "method_call"}
    /\ hist.result.r = "Err"
    /\ hist.result.err \in {"Io", "Deserialize", "Poisoned"}

\* C29: a method_call whose reply the peer has delivered behind well-formed
\* frames returns, and so does one whose stream has ended or whose link has
\* failed; when the stream ends or the link fails with no reply delivered,
\* it returns an error
C29_MethodCallReturns ==
    /\ (InMethodCall /\ (ReplyDelivered \/ sock # "open")) ~> ~InMethodCall
    /\ (InMethodCall /\ sock # "open" /\ ~ReplyDelivered) ~> ReturnedError

\* method_call returned the peer's ERROR reply after it had held a signal
\* that came before the reply
C29_Witness ==
    /\ hist.result.op = "method_call"
    /\ hist.result.r = "Err"
    /\ hist.result.err = "Error"
    /\ ~hist.result.held
    /\ Len(received_messages) = 1
    /\ received_messages[1].header.type.t = "Signal"
    /\ received_messages[1].id = hist.result.id - 1

(***************************************************************************)
(* SpecEndian: the Connection whose caller sends messages, changes the     *)
(* write endianness with set_write_endianness between calls, and receives  *)
(* what a peer writes in either endianness.                                *)
(***************************************************************************)
\* how many messages the caller sends
MaxEndianSends == 2

\* how many frames the peer writes
MaxEndianPeer == 2

\* the messages of the caller: each header type, scalars of two, four and
\* eight bytes in the body and in the fields, a header that kept the
\* body_len of an earlier message, and one whose field cannot be written
EndianInputs ==
    <<[header |-> MessageHeader(TMethodCall(StrM, StrPath), FlagsNone, 0, <<1, 2, 3, 4>>,
                                <<>>),
       body |-> <<>>],
      [header |-> MessageHeader(TSignal(StrI, StrM, StrPath), 3, 0, U32(7),
                                <<FDestination(StrBus), FUnixFds(W2)>>),
       body |-> <<VStruct(<<VU16(W1), VI32(W2), VF64(W3), VString(StrHi),
                            VArrayU32(<<W2, W2>>)>>)>>],
      [header |-> MessageHeader(TError(StrE, <<5, 6, 7, 8>>), FlagsNone, 5, U32Max,
                                <<FUnknown(200, VU64(W3))>>),
       body |-> <<VString(StrHi)>>],
      [header |-> MessageHeader(TMethodReturn(<<5, 6, 7, 8>>), FlagsNone, 0, U32(2),
                                <<>>),
       body |-> <<VArray(SigStruct(<<SigI16>>), <<VStruct(<<VI16(W1)>>)>>)>>],
      [header |-> MessageHeader(TMethodReturn(<<5, 6, 7, 8>>), FlagsNone, 5, U32(2),
                                <<>>),
       body |-> <<>>],
      [header |-> MessageHeader(TMethodReturn(U32(PeerSerial)), FlagsNone, 0, U32(0),
                                <<FUnknown(PeerSerial, VSignature(LongSignature))>>),
       body |-> <<>>]>>

\* the frames of the peer: a reply and a signal in either endianness, and a
\* frame that is no message
EndianKinds ==
    [k : {"Ret"}, s : {1}, e : Endiannesses] \cup [k : {"Sig"}, s : {0}, e : Endiannesses]
        \cup [k : {"Bad"}, s : {0}, e : {"Little"}]

EndianFrame(kind) ==
    IF kind.k = "Bad" THEN <<0>>
    ELSE serialize_message(PeerMessage(kind).header, PeerMessage(kind).body, <<>>,
                           kind.e).buf

NoSend == [sent |-> FALSE]

\* the Connection as Connection::new leaves it, on a target of either
\* endianness
InitEndian ==
    /\ InitConnection
    /\ connection = "some"
    /\ last_serial = U32(0)
    /\ name = <<>>
    /\ received_messages = <<>>
    /\ call = Idle
    /\ hist = InitHist
    /\ codec = [phase |-> "endian", sends |-> 0, last |-> NoSend]

EndianPeerSend ==
    /\ sock = "open"
    /\ Len(hist.sent) < MaxEndianPeer
    /\ \E kind \in EndianKinds :
        /\ sock_in' = sock_in \o EndianFrame(kind)
        /\ hist' = [hist EXCEPT !.sent = Append(@, kind)]
    /\ UNCHANGED <<sock, wire_out, read_buf, read_end, write_buf, write_endianness,
                   connection, last_serial, name, received_messages, call, codec>>

\* Connection::set_write_endianness
SetWriteEndianness ==
    /\ call.op = "idle"
    /\ \E endianness \in Endiannesses : write_endianness' = endianness
    /\ UNCHANGED <<sock_in, sock, wire_out, read_buf, read_end, write_buf, connection,
                   last_serial, name, received_messages, call, hist, codec>>

\* what deserialize_message makes of the bytes serialize_message gave
Reread(r) == IF r.ok THEN deserialize_message(r.buf) ELSE NoMessage

\* Connection::send of the message, r being what serialize_message gave; big
\* and little are the message serialized with either endianness into an empty
\* buffer, kept beside the call for comparison
EndianSent(input, r, big, little) ==
    /\ ConnSendEnd(r)
    /\ codec' = [codec EXCEPT
                   !.sends = @ + 1,
                   !.last = [sent |-> TRUE, e |-> write_endianness,
                             header |-> input.header, body |-> input.body,
                             before |-> write_buf, ok |-> r.ok,
                             written |-> IF r.ok THEN r.buf ELSE <<>>,
                             big |-> big, little |-> little,
                             deBig |-> Reread(big), deLittle |-> Reread(little)]]

EndianSend ==
    /\ call.op = "idle"
    /\ hist.ops < MaxConnOps
    /\ codec.sends < MaxEndianSends
    /\ \E i \in 1..Len(EndianInputs) :
          EndianSent(EndianInputs[i],
                     serialize_message(EndianInputs[i].header, EndianInputs[i].body,
                                       write_buf, write_endianness),
                     serialize_message(EndianInputs[i].header, EndianInputs[i].body,
                                       <<>>, "Big"),
                     serialize_message(EndianInputs[i].header, EndianInputs[i].body,
                                       <<>>, "Little"))
    /\ UNCHANGED <<sock_in, sock, read_buf, read_end, write_endianness, connection,
                   last_serial, name, received_messages, call>>

\* the EndOfInput arm of Connection::recv, the read returning all that fits
\* or a short read
EndianRead ==
    /\ call.op = "conn_recv"
    /\ ParseError(Parse) = "EndOfInput"
    /\ sock_in # <<>>
    /\ \E n \in ReadSizes(Len(sock_in), Len(Grow(read_buf, read_end)) - read_end) :
        /\ read_buf' = ReadInto(Grow(read_buf, read_end), read_end, SubSeq(sock_in, 1, n))
        /\ read_end' = read_end + n
        /\ sock_in' = SubSeq(sock_in, n + 1, Len(sock_in))
    /\ UNCHANGED <<sock, wire_out, write_buf, write_endianness, connection, last_serial,
                   name, received_messages, call, hist, codec>>

NextEndian ==
    \/ EndianPeerSend
    \/ SetWriteEndianness
    \/ EndianSend
    \/ ConnRecv
    \/ ConnParsed
    \/ EndianRead
    \/ ConnBad

SpecEndian == InitEndian /\ [][NextEndian]_vars

\* the two decodings are of the same message
SameMessage(a, b) ==
    /\ a.header.type = b.header.type
    /\ a.header.flags = b.header.flags
    /\ a.header.body_len = b.header.body_len
    /\ a.header.serial = b.header.serial
    /\ SameFields(a.header.fields, b.header.fields)
    /\ SameBody(a.body, b.body)

\* the markers of the two encodings of the message last sent
MarkersOfLast ==
    /\ codec.last.big.ok = codec.last.little.ok
    /\ codec.last.big.ok = codec.last.ok
    /\ codec.last.big.ok =>
          /\ codec.last.big.buf[1] = MarkerBig
          /\ codec.last.little.buf[1] = MarkerLittle
          /\ Len(codec.last.big.buf) = Len(codec.last.little.buf)

\* both encodings of the message last sent are read back, as the same
\* message, each in whole
BothReadBack ==
    /\ codec.last.deBig.ok
    /\ codec.last.deLittle.ok
    /\ SameMessage(codec.last.deBig, codec.last.deLittle)
    /\ codec.last.deBig.header.type.t = codec.last.header.type.t
    /\ codec.last.deBig.header.serial = codec.last.header.serial
    /\ codec.last.deBig.read = Len(codec.last.big.buf)
    /\ codec.last.deLittle.read = Len(codec.last.little.buf)

\* C30 as stated: of every message that can be written, the bytes made with
\* Big start with 'B', the bytes made with Little start with 'l', and both
\* are deserialized to the same header and body
C30_BothEncodingsDeserializeAlike ==
    (codec.phase = "endian" /\ codec.last.sent)
        => /\ MarkersOfLast
           /\ codec.last.big.ok => BothReadBack

\* a send writes the message in the write endianness it found, behind what
\* an earlier failed send left in write_buf
WrittenInWriteEndianness ==
    /\ codec.last.ok =>
          codec.last.written =
              codec.last.before \o (IF codec.last.e = "Big" THEN codec.last.big.buf
                                    ELSE codec.last.little.buf)
    /\ (codec.last.ok /\ hist.result.op = "conn_send" /\ hist.result.r = "Ok")
          => /\ Len(wire_out) >= Len(codec.last.written)
             /\ SubSeq(wire_out, Len(wire_out) - Len(codec.last.written) + 1,
                       Len(wire_out)) = codec.last.written

\* what recv returned is the message the peer wrote, whatever endianness the
\* peer wrote it in
ReceivedAsWritten ==
    \A i \in 1..Len(hist.got) :
        /\ hist.sent[i].k # "Bad"
        /\ SameMessage(hist.got[i], deserialize_message(PeerFrame(hist.sent[i])))
        /\ hist.got[i].header.type.t = PeerMessage(hist.sent[i]).header.type.t
        /\ hist.got[i].header.serial = U32(PeerSerial)
        /\ SameBody(hist.got[i].body, PeerMessage(hist.sent[i]).body)

C30_State ==
    codec.phase = "endian" =>
        /\ ReceivedAsWritten
        /\ codec.last.sent =>
              /\ MarkersOfLast
              /\ WrittenInWriteEndianness
              /\ codec.last.big.ok =>
                    IF codec.last.body # <<>> \/ codec.last.header.body_len = 0
                    THEN BothReadBack
                    ELSE /\ ParseError(codec.last.deBig) = "EndOfInput"
                         /\ ParseError(codec.last.deLittle) = "EndOfInput"

C30_Step ==
    /\ write_endianness' # write_endianness
          => /\ UNCHANGED <<sock_in, sock, wire_out, read_buf, read_end, write_buf,
                            connection, last_serial, name, received_messages, call, hist>>
             /\ UNCHANGED codec
    /\ codec'.sends # codec.sends => codec'.last.e = write_endianness
    /\ Len(wire_out') >= Len(wire_out)
    /\ SubSeq(wire_out', 1, Len(wire_out)) = wire_out
    /\ (hist'.got # hist.got \/ read_end' # read_end \/ read_buf' # read_buf)
          => /\ write_endianness' = write_endianness
             /\ wire_out' = wire_out
             /\ write_buf' = write_buf

\* C30 as it holds: the bytes a send writes are the message in the write
\* endianness of the moment; the Big bytes of a message start with 'B', the
\* Little bytes with 'l', they are equally long and are read back as the
\* same header and body, unless the header came with a body_len other than
\* 0 and no body, when neither is read back; set_write_endianness changes
\* write_endianness and nothing else, the bytes written before stay as they
\* are, and what recv returns is what the peer wrote, in either endianness
C30_EncodingsAgree == []C30_State /\ [][C30_Step]_vars

\* a Little message was sent, the write endianness set to Big, a second
\* message sent, and a message the peer wrote in Little received after that
C30_Witness ==
    /\ codec.phase = "endian"
    /\ codec.sends = 2
    /\ codec.last.sent
    /\ codec.last.e = "Big"
    /\ codec.last.ok
    /\ codec.last.body # <<>>
    /\ BothReadBack
    /\ write_endianness = "Big"
    /\ wire_out[1] = MarkerLittle
    /\ Len(wire_out) > Len(codec.last.written)
    /\ wire_out[Len(wire_out) - Len(codec.last.written) + 1] = MarkerBig
    /\ Len(hist.got) = 1
    /\ hist.sent[1].e = "Little"
    /\ hist.result.op = "conn_recv"

\* the message sent came with body_len 5 and no body, and neither encoding
\* is read back
C30_StaleBodyLenSent ==
    /\ codec.phase = "endian"
    /\ codec.last.sent
    /\ codec.last.big.ok
    /\ codec.last.body = <<>>
    /\ ~codec.last.deBig.ok
    /\ ~codec.last.deLittle.ok

=============================================================================
